---- MODULE Spec2Model ----
(***************************************************************************)
(* Model of the agent-log ontology: the enhanced run with its step tree    *)
(* (agent_log_ontology/ontology/enhanced_run.py) and the enhanced OpenAI   *)
(* trace connector (agent_log_ontology/connectors/enhanced_openai_traces). *)
(*                                                                         *)
(* Encoding of Python values                                               *)
(*   None (object slot)   the empty tuple <<>>                             *)
(*   None (string slot)   the string "None", which is also what an         *)
(*                        f-string prints for None                         *)
(*   dict                 a record; a missing key is a name outside DOMAIN *)
(*   list                 a sequence                                       *)
(*   int / float          an exact rational [num, den] in lowest terms     *)
(*                        where numbers of both kinds meet (metrics),      *)
(*                        a plain integer elsewhere                        *)
(*   datetime             [t, tz]: seconds after 2024-01-01T00:00:00 and   *)
(*                        the tzinfo, "naive" or "utc"                     *)
(*   call that may raise  its outcome, [value |-> v] or                    *)
(*                        [error |-> <exception class>, message |-> text]  *)
(***************************************************************************)
EXTENDS Integers, Sequences, FiniteSets, TLC

VARIABLES
    run,      \* the EnhancedAgentRun under construction / returned, or None
    result,   \* what the last query on the run returned
    trace,    \* the trace document handed to the connector
    pc,       \* position of the connector: "input", "steps", "done", "failed"
    error,    \* the exception the connector raised, or None
    clock     \* the time source read by datetime.utcnow()

vars == <<run, result, trace, pc, error, clock>>

----------------------------------------------------------------------------
(* Bounds of the model *)

MaxSteps == 3
MaxDuration == 1
MaxTimelineSteps == 2
MaxTime == 2
MaxTraceSteps == 2
MaxClock == 1

----------------------------------------------------------------------------
(* Python values *)

None == <<>>
NoneStr == "None"

\* The outcome of a call that may raise: the value returned or the exception raised.
Return(v) == [value |-> v]
Raise(cls, message) == [error |-> cls, message |-> message]
Raised(outcome) == "error" \in DOMAIN outcome

Max(a, b) == IF a >= b THEN a ELSE b

RECURSIVE GCD(_, _)
GCD(a, b) == IF b = 0 THEN a ELSE GCD(b, a % b)

\* A Python number as an exact rational in lowest terms, so that 2 == 2.0.
Rat(n, d) == LET g == GCD(n, d) IN [num |-> n \div g, den |-> d \div g]
Num(n) == Rat(n, 1)
RatAdd(a, b) == Rat(a.num * b.den + b.num * a.den, a.den * b.den)
RatDiv(a, n) == Rat(a.num, a.den * n)

RECURSIVE RatSum(_)
RatSum(xs) == IF xs = <<>> THEN Num(0) ELSE RatAdd(Head(xs), RatSum(Tail(xs)))

\* bool(x) of an Optional[float]: None and 0.0 are both falsy.
TruthyNumber(x) == x # None /\ x.num # 0

\* dict.update: keys of other win.
DictUpdate(d, other) ==
    [k \in DOMAIN d \cup DOMAIN other |-> IF k \in DOMAIN other THEN other[k] ELSE d[k]]

Naive(t) == [t |-> t, tz |-> "naive"]
Utc(t) == [t |-> t, tz |-> "utc"]

----------------------------------------------------------------------------
(* EnhancedAgentStep and EnhancedAgentRun as built directly *)

EnhancedAgentStep(id, name, step_number, start_time, end_time, duration) ==
    [id |-> id, name |-> name, step_number |-> step_number,
     start_time |-> start_time, end_time |-> end_time, duration |-> duration,
     perception_state |-> None, action_state |-> None, complete_state |-> None,
     interaction_state |-> None, inputs |-> <<>>, outputs |-> <<>>,
     metadata |-> <<>>, sub_steps |-> <<>>]

TestAgent ==
    [id |-> "agent-001", name |-> "Test Agent", types |-> <<"conversational">>,
     domains |-> <<>>, capabilities |-> <<>>,
     configuration |-> [model_id |-> NoneStr, parameters |-> <<>>],
     metadata |-> [created_at |-> Naive(0), created_by |-> "test",
                   version |-> "1.0.0", tags |-> <<>>]]

EnhancedAgentRun(id, name, agent, start_time, end_time, status, initial_state) ==
    [id |-> id, name |-> name, agent |-> agent,
     start_time |-> start_time, end_time |-> end_time, duration |-> None,
     status |-> status, initial_state |-> initial_state, final_state |-> None,
     steps |-> <<>>,
     total_observations |-> 0, total_actions |-> 0, total_messages |-> 0,
     performance_metrics |-> <<>>]

RECURSIVE CountSteps(_)
CountSteps(steps) ==
    IF steps = <<>> THEN 0
    ELSE 1 + CountSteps(Head(steps).sub_steps) + CountSteps(Tail(steps))

\* The positions of the steps of a forest: a path is the sequence of list indices
\* leading from the top-level list down to the step.
RECURSIVE Paths(_)
Paths(steps) ==
    UNION {{<<i>>} \cup {<<i>> \o p : p \in Paths(steps[i].sub_steps)} : i \in DOMAIN steps}

RECURSIVE StepAt(_, _)
StepAt(steps, path) ==
    IF Len(path) = 1 THEN steps[path[1]]
    ELSE StepAt(steps[path[1]].sub_steps, Tail(path))

\* step.sub_steps.append(sub) for the step at path.
RECURSIVE AppendSubStep(_, _, _)
AppendSubStep(steps, path, sub) ==
    [steps EXCEPT ![path[1]] =
        IF Len(path) = 1
        THEN [@ EXCEPT !.sub_steps = Append(@, sub)]
        ELSE [@ EXCEPT !.sub_steps = AppendSubStep(@, Tail(path), sub)]]

----------------------------------------------------------------------------
(* EnhancedAgentRun.get_step_by_id *)

\* Variant that looks through a whole list before descending into any sub-steps.
RECURSIVE search_steps_siblings_first(_, _), SearchBelow(_, _)
search_steps_siblings_first(steps, step_id) ==
    IF \E i \in DOMAIN steps : steps[i].id = step_id
    THEN steps[CHOOSE i \in DOMAIN steps :
                 /\ steps[i].id = step_id
                 /\ \A j \in 1..(i - 1) : steps[j].id # step_id]
    ELSE SearchBelow(steps, step_id)
SearchBelow(steps, step_id) ==
    IF steps = <<>> THEN None
    ELSE LET found == search_steps_siblings_first(Head(steps).sub_steps, step_id)
         IN  IF found # None THEN found ELSE SearchBelow(Tail(steps), step_id)

RECURSIVE search_steps(_, _)
search_steps(steps, step_id) ==
    IF steps = <<>> THEN None
    ELSE LET step == Head(steps)
             found == IF step.sub_steps # <<>>
                      THEN search_steps(step.sub_steps, step_id)
                      ELSE None
         IN  IF step.id = step_id THEN step
             ELSE IF found # None THEN found
             ELSE search_steps(Tail(steps), step_id)

get_step_by_id(r, step_id) == search_steps(r.steps, step_id)

----------------------------------------------------------------------------
(* EnhancedAgentRun.get_timeline *)

Event(timestamp, type, step, depth) ==
    [timestamp |-> timestamp, type |-> type, step_id |-> step.id,
     step_name |-> step.name, depth |-> depth]

\* extract_events(step, depth): the events appended for one step and, after
\* them, for its sub-steps one level deeper. ExtractAll is the loop over a list.
RECURSIVE extract_events(_, _), ExtractAll(_, _)
extract_events(step, depth) ==
    <<Event(step.start_time, "step_start", step, depth)>>
    \o (IF step.end_time # None
        THEN <<Event(step.end_time, "step_end", step, depth)>>
        ELSE <<>>)
    \o ExtractAll(step.sub_steps, depth + 1)
ExtractAll(steps, depth) ==
    IF steps = <<>> THEN <<>>
    ELSE extract_events(Head(steps), depth) \o ExtractAll(Tail(steps), depth)

\* datetime.__lt__ is defined between two naive or two aware datetimes only.
Comparable(a, b) == a.tz = b.tz

\* Insertion of e behind every element that is not greater: the order of equal
\* keys is the order of insertion, as in Python's stable sort.
RECURSIVE InsertEvent(_, _)
InsertEvent(sorted, e) ==
    IF sorted = <<>> THEN <<e>>
    ELSE IF e.timestamp.t < Head(sorted).timestamp.t THEN <<e>> \o sorted
    ELSE <<Head(sorted)>> \o InsertEvent(Tail(sorted), e)

RECURSIVE SortEvents(_, _)
SortEvents(sorted, rest) ==
    IF rest = <<>> THEN sorted
    ELSE SortEvents(InsertEvent(sorted, Head(rest)), Tail(rest))

\* sorted(events, key=timestamp): every sort of two or more keys compares each key
\* with some other one, so a list that mixes naive and aware datetimes raises
\* TypeError at the first such comparison.
sorted_by_timestamp(events) ==
    IF \E i, j \in DOMAIN events : ~Comparable(events[i].timestamp, events[j].timestamp)
    THEN Raise("TypeError", "can't compare offset-naive and offset-aware datetimes")
    ELSE Return(SortEvents(<<>>, events))

get_timeline(r) == sorted_by_timestamp(ExtractAll(r.steps, 0))

----------------------------------------------------------------------------
(* EnhancedAgentRun.calculate_metrics *)

RECURSIVE collect_durations(_)
collect_durations(steps) ==
    IF steps = <<>> THEN <<>>
    ELSE LET step == Head(steps)
         IN  (IF TruthyNumber(step.duration) THEN <<step.duration>> ELSE <<>>)
             \o (IF step.sub_steps # <<>> THEN collect_durations(step.sub_steps) ELSE <<>>)
             \o collect_durations(Tail(steps))

\* Variant that looks one level down only.
get_max_depth_one_level(steps, current_depth) ==
    IF \E i \in DOMAIN steps : steps[i].sub_steps # <<>>
    THEN current_depth + 1
    ELSE current_depth

\* The for loop of get_max_depth over steps, max_depth being the running maximum.
RECURSIVE get_max_depth(_, _), MaxDepthLoop(_, _, _)
get_max_depth(steps, current_depth) ==
    IF steps = <<>> THEN current_depth
    ELSE MaxDepthLoop(steps, current_depth, current_depth)
MaxDepthLoop(steps, current_depth, max_depth) ==
    IF steps = <<>> THEN max_depth
    ELSE LET step == Head(steps)
         IN  MaxDepthLoop(Tail(steps), current_depth,
                 IF step.sub_steps # <<>>
                 THEN Max(max_depth, get_max_depth(step.sub_steps, current_depth + 1))
                 ELSE max_depth)

average_step_duration(step_durations) ==
    IF step_durations # <<>>
    THEN RatDiv(RatSum(step_durations), Len(step_durations))
    ELSE Num(0)

calculate_metrics(r) ==
    DictUpdate(
        [total_steps |-> Num(Len(r.steps)),
         total_duration |-> IF TruthyNumber(r.duration) THEN r.duration ELSE Num(0),
         average_step_duration |-> average_step_duration(collect_durations(r.steps)),
         max_nesting_depth |-> Num(get_max_depth(r.steps, 1)),
         success_rate |-> Num(0)],
        r.performance_metrics)

----------------------------------------------------------------------------
(* Direct construction of a run and the queries on it *)

StepIds == {"a", "b"}
LookupIds == StepIds \cup {"zz"}

NoResult == [op |-> "none"]

\* Steps that differ in id and duration (lookup and metrics).
TreeSteps(n) ==
    {EnhancedAgentStep(id, "Step", n, Naive(0), None, d) :
        id \in StepIds, d \in {None} \cup {Num(k) : k \in 0..MaxDuration}}

\* Steps that differ in their start and end times (timeline); parsed timestamps
\* with a UTC offset are aware, datetime.utcnow() ones are naive.
Datetimes == {Naive(t) : t \in 0..MaxTime} \cup {Utc(0)}
TimelineSteps(n) ==
    {EnhancedAgentStep("step-" \o ToString(n), "Step", n, st, en, None) :
        st \in Datetimes, en \in {None} \cup Datetimes}

\* performance_metrics handed to the constructor: none, an extra metric, or
\* metrics under the names calculate_metrics computes itself.
PerformanceMetrics ==
    {<<>>,
     [accuracy |-> Rat(1, 2)],
     [total_steps |-> Num(9), average_step_duration |-> Num(5),
      max_nesting_depth |-> Num(7)]}

DirectRun(perf) ==
    [EnhancedAgentRun("run-001", "Test Run", TestAgent, Naive(0), None, "running", None)
        EXCEPT !.performance_metrics = perf]

NoTrace == <<>>

InitDirect ==
    /\ \E perf \in PerformanceMetrics : run = DirectRun(perf)
    /\ result = NoResult
    /\ trace = NoTrace
    /\ pc = "direct"
    /\ error = None
    /\ clock = 0

\* Variant that puts the new step in front of the list.
add_step_in_front(r, step) == [r EXCEPT !.steps = <<step>> \o @]

\* run.add_step(step)
add_step(r, step) == [r EXCEPT !.steps = Append(@, step)]

AddStep(pool, bound) ==
    /\ pc = "direct"
    /\ CountSteps(run.steps) < bound
    /\ \E step \in pool : run' = add_step(run, step)
    /\ result' = NoResult
    /\ UNCHANGED <<trace, pc, error, clock>>

\* step.sub_steps.append(sub) on a step of the run
AddSubStep(pool, bound) ==
    /\ pc = "direct"
    /\ CountSteps(run.steps) < bound
    /\ \E path \in Paths(run.steps), sub \in pool :
          run' = [run EXCEPT !.steps = AppendSubStep(@, path, sub)]
    /\ result' = NoResult
    /\ UNCHANGED <<trace, pc, error, clock>>

GetStepById ==
    /\ pc = "direct"
    /\ \E step_id \in LookupIds :
          result' = [op |-> "get_step_by_id", step_id |-> step_id,
                     value |-> get_step_by_id(run, step_id)]
    /\ UNCHANGED <<run, trace, pc, error, clock>>

GetTimeline ==
    /\ pc = "direct"
    /\ result' = [op |-> "get_timeline"] @@ get_timeline(run)
    /\ UNCHANGED <<run, trace, pc, error, clock>>

CalculateMetrics ==
    /\ pc = "direct"
    /\ result' = [op |-> "calculate_metrics", value |-> calculate_metrics(run)]
    /\ UNCHANGED <<run, trace, pc, error, clock>>

AddTreeStep == AddStep(TreeSteps(CountSteps(run.steps)), MaxSteps)
AddTreeSubStep == AddSubStep(TreeSteps(CountSteps(run.steps)), MaxSteps)
AddTimelineStep == AddStep(TimelineSteps(CountSteps(run.steps)), MaxTimelineSteps)
AddTimelineSubStep == AddSubStep(TimelineSteps(CountSteps(run.steps)), MaxTimelineSteps)

Next ==
    \/ AddTreeStep
    \/ AddTreeSubStep
    \/ GetStepById
    \/ CalculateMetrics

Spec == InitDirect /\ [][Next]_vars

NextTimeline ==
    \/ AddTimelineStep
    \/ AddTimelineSubStep
    \/ GetTimeline

SpecTimeline == InitDirect /\ [][NextTimeline]_vars

----------------------------------------------------------------------------
(* The trace document and its timestamps *)

\* dict.get(key, default)
DictGet(d, key, default) == IF key \in DOMAIN d THEN d[key] ELSE default

\* Timestamps of the model lie in the first ten seconds of 2024-01-01.
DatePrefix == "2024-01-01T00:00:0"
Digits == {"0", "1", "2", "3", "4", "5", "6", "7", "8", "9"}
DigitValue(c) == CHOOSE n \in 0..9 : ToString(n) = c

\* str.replace(old, new) for a one-character old
RECURSIVE StrReplace(_, _, _)
StrReplace(text, old, new) ==
    IF text = "" THEN ""
    ELSE (IF Head(text) = old THEN new ELSE Head(text)) \o StrReplace(Tail(text), old, new)

\* datetime.fromisoformat on "YYYY-MM-DDTHH:MM:SS" with an optional UTC offset,
\* written "+00:00" or "Z" (the interpreter reads a trailing Z since Python 3.11).
fromisoformat(text) ==
    LET n == Len(DatePrefix) + 1
    IN  IF /\ Len(text) \in {n, n + 1, n + 6}
           /\ SubSeq(text, 1, n - 1) = DatePrefix
           /\ SubSeq(text, n, n) \in Digits
           /\ Len(text) = n + 1 => SubSeq(text, n + 1, n + 1) = "Z"
           /\ Len(text) = n + 6 => SubSeq(text, n + 1, n + 6) = "+00:00"
        THEN Return([t |-> DigitValue(SubSeq(text, n, n)),
                     tz |-> IF Len(text) = n THEN "naive" ELSE "utc"])
        ELSE Raise("ValueError", "Invalid isoformat string: '" \o text \o "'")

\* datetime.isoformat()
isoformat(dt) ==
    DatePrefix \o ToString(dt.t) \o (IF dt.tz = "utc" THEN "+00:00" ELSE "")

\* Variant that takes a text it cannot parse for a missing one.
_parse_time_lenient(value) ==
    LET parsed == fromisoformat(StrReplace(value, "Z", "+00:00"))
    IN  IF value = NoneStr \/ Raised(parsed) THEN Return(None) ELSE parsed

\* _parse_time(value); a value read from JSON is never a datetime object.
_parse_time(value) ==
    IF value = NoneStr THEN Return(None)
    ELSE fromisoformat(StrReplace(value, "Z", "+00:00"))

\* _parse_time(d.get(key)) or now
TimeOrNow(d, key, now) ==
    LET parsed == _parse_time(DictGet(d, key, NoneStr))
    IN  IF Raised(parsed) THEN parsed
        ELSE IF parsed.value # None THEN parsed
        ELSE Return(Naive(now))

\* Variant that passes a status it does not know through unchanged.
_map_status_passthrough(status) == IF status = NoneStr THEN "unknown" ELSE status

\* _map_status(status)
_map_status(status) ==
    LET status_map == [completed |-> "completed", failed |-> "failed",
                       cancelled |-> "cancelled", running |-> "running"]
    IN  DictGet(status_map, status, "unknown")

TraceSteps(t) == DictGet(t, "steps", <<>>)
StepType(step) == DictGet(step, "type", NoneStr)

----------------------------------------------------------------------------
(* Connector: agent instance and initial state *)

\* Variant of the loop that takes the tool_name of a step of any type.
RECURSIVE CapabilitiesLoopAnyType(_, _)
CapabilitiesLoopAnyType(steps, tools_used) ==
    IF steps = <<>> THEN <<>>
    ELSE LET tool_name == DictGet(Head(steps), "tool_name", "")
         IN  IF tool_name \notin {"", NoneStr} \cup tools_used
             THEN <<[name |-> "tool:" \o tool_name, version |-> "1.0.0", enabled |-> TRUE]>>
                  \o CapabilitiesLoopAnyType(Tail(steps), tools_used \cup {tool_name})
             ELSE CapabilitiesLoopAnyType(Tail(steps), tools_used)

\* The loop over the steps that collects one capability per tool name first seen.
RECURSIVE CapabilitiesLoop(_, _)
CapabilitiesLoop(steps, tools_used) ==
    IF steps = <<>> THEN <<>>
    ELSE LET step == Head(steps)
             tool_name == DictGet(step, "tool_name", "")
         IN  IF StepType(step) = "tool" /\ tool_name \notin {"", NoneStr} \cup tools_used
             THEN <<[name |-> "tool:" \o tool_name, version |-> "1.0.0", enabled |-> TRUE]>>
                  \o CapabilitiesLoop(Tail(steps), tools_used \cup {tool_name})
             ELSE CapabilitiesLoop(Tail(steps), tools_used)

\* _create_agent_instance(trace_json); now is what datetime.utcnow() returns.
_create_agent_instance(trace_json, now) ==
    LET agent_id == DictGet(trace_json, "agent_id", DictGet(trace_json, "id", "unknown"))
        steps == TraceSteps(trace_json)
        agent_types ==
            <<"conversational">>
            \o (IF \E i \in DOMAIN steps : StepType(steps[i]) = "tool"
                THEN <<"task-execution">> ELSE <<>>)
        created_at == TimeOrNow(trace_json, "started_at", now)
    IN  IF Raised(created_at) THEN created_at
        ELSE Return(
            [id |-> agent_id, name |-> "OpenAI Agent " \o agent_id,
             types |-> agent_types, domains |-> <<"general">>,
             capabilities |-> CapabilitiesLoop(steps, {}),
             configuration |-> [model_id |-> DictGet(trace_json, "model", "gpt-4"),
                                parameters |-> DictGet(trace_json, "config", <<>>)],
             metadata |-> [created_at |-> created_at.value, created_by |-> "openai",
                           version |-> "1.0.0", tags |-> <<"openai", "trace-import">>]])

CompleteState(timestamp, agent_id, suffix, status, hash, phase, tasks, focus, sensors, readings) ==
    [timestamp |-> timestamp,
     agent_state |-> [id |-> agent_id \o "-state-" \o suffix, agent_id |-> agent_id,
                      status |-> status, health_score |-> Num(1), uptime |-> Num(0),
                      last_activity |-> timestamp, configuration_hash |-> hash],
     execution_state |-> [id |-> agent_id \o "-exec-" \o suffix, phase |-> phase,
                          active_tasks |-> tasks, pending_actions |-> <<>>],
     cognitive_state |-> [id |-> agent_id \o "-cog-" \o suffix, attention_focus |-> focus,
                          working_memory |-> <<>>, active_goals |-> <<>>,
                          active_plans |-> <<>>],
     perceptual_state |-> [id |-> agent_id \o "-percept-" \o suffix,
                           active_sensors |-> sensors, sensor_readings |-> readings,
                           observation_buffer |-> <<>>]]

\* _create_initial_state(agent_id, trace_json)
_create_initial_state(agent_id, trace_json, now) ==
    LET timestamp == TimeOrNow(trace_json, "started_at", now)
    IN  IF Raised(timestamp) THEN timestamp
        ELSE Return(CompleteState(timestamp.value, agent_id, "initial", "initializing",
                                  "initial", "idle", <<>>, <<>>, <<>>, <<>>))

----------------------------------------------------------------------------
(* Connector: one trace step *)

\* Python's "a or b" for a string a
StrOr(a, b) == IF a # NoneStr /\ a # "" THEN a ELSE b

IsAssistant(step) == DictGet(step, "role", NoneStr) = "assistant"

\* _create_perception_snapshot_for_message(step, agent_id)
_create_perception_snapshot_for_message(step, agent_id, now) ==
    LET timestamp == TimeOrNow(step, "timestamp", now).value
        observation ==
            [id |-> DictGet(step, "id", NoneStr) \o "-obs",
             processor_id |-> agent_id \o "-nlp-processor",
             signal_ids |-> <<DictGet(step, "id", NoneStr) \o "-signal">>,
             type |-> "text-message",
             content |-> DictGet(step, "content", ""),
             confidence |-> Num(1),
             timestamp |-> timestamp,
             metadata |-> [role |-> DictGet(step, "role", "assistant")]]
    IN  [timestamp |-> timestamp, current_observations |-> <<observation>>,
         processing_queue_size |-> 0]

\* Variant that takes a missing role for assistant, as the observation metadata does.
_create_interaction_snapshot_default_assistant(step, agent_id, now) ==
    LET timestamp == TimeOrNow(step, "timestamp", now).value
        assistant == DictGet(step, "role", "assistant") = "assistant"
        message ==
            [id |-> DictGet(step, "id", ""),
             type |-> IF assistant THEN "response" ELSE "request",
             sender_id |-> IF assistant THEN agent_id ELSE "user",
             recipient_id |-> IF assistant THEN "user" ELSE agent_id,
             interface_id |-> "openai-api",
             content |-> DictGet(step, "content", ""),
             timestamp |-> timestamp]
    IN  [timestamp |-> timestamp, recent_messages |-> <<message>>,
         pending_messages |-> 0]

\* _create_interaction_snapshot_for_message(step, agent_id)
_create_interaction_snapshot_for_message(step, agent_id, now) ==
    LET timestamp == TimeOrNow(step, "timestamp", now).value
        message ==
            [id |-> DictGet(step, "id", ""),
             type |-> IF IsAssistant(step) THEN "response" ELSE "request",
             sender_id |-> IF IsAssistant(step) THEN agent_id ELSE "user",
             recipient_id |-> IF IsAssistant(step) THEN "user" ELSE agent_id,
             interface_id |-> "openai-api",
             content |-> DictGet(step, "content", ""),
             timestamp |-> timestamp]
    IN  [timestamp |-> timestamp, recent_messages |-> <<message>>,
         pending_messages |-> 0]

\* _create_action_snapshot_for_tool(step, agent_id): the ToolInvocation is built
\* and goes out of scope with the function; the snapshot holds the ActionExecution.
_create_action_snapshot_for_tool(step, agent_id, now) ==
    LET timestamp == TimeOrNow(step, "timestamp", now).value
        tool_invocation ==
            [id |-> DictGet(step, "id", NoneStr) \o "-tool",
             tool_name |-> DictGet(step, "tool_name", ""),
             action_execution_id |-> DictGet(step, "id", ""),
             input_parameters |-> DictGet(step, "input", <<>>),
             output_data |-> DictGet(step, "output", None),
             start_time |-> timestamp, end_time |-> timestamp]
        action_execution ==
            [id |-> DictGet(step, "id", ""),
             action_plan_id |-> DictGet(step, "id", NoneStr) \o "-plan",
             status |-> "completed",
             start_time |-> timestamp, end_time |-> timestamp,
             executor_id |-> agent_id,
             actual_parameters |-> DictGet(step, "input", <<>>),
             results |-> DictGet(step, "output", None)]
    IN  [timestamp |-> timestamp, executing_actions |-> <<>>,
         completed_actions |-> <<action_execution>>, failed_actions |-> <<>>,
         planned_actions |-> <<>>, action_queue_size |-> 0]

\* _create_step_state(step, agent_id, timestamp)
_create_step_state(step, agent_id, timestamp) ==
    CompleteState(timestamp, agent_id, DictGet(step, "id", NoneStr), "active", "active",
                  IF StepType(step) = "tool" THEN "execution" ELSE "perception",
                  <<DictGet(step, "id", "")>>,
                  <<DictGet(step, "type", "")>>,
                  <<"openai-api">>,
                  [last_input |-> StrOr(DictGet(step, "content", NoneStr),
                                        DictGet(step, "input", None))])

\* Variant of _parse_enhanced_step that gives every step with a type the
\* perception snapshot, whatever the type.
_parse_enhanced_step_perceiving_all(step, step_number, agent_id, nows) ==
    LET step_id == DictGet(step, "id", "step-" \o ToString(step_number))
        timestamp == TimeOrNow(step, "timestamp", nows[1])
        enhanced_step ==
            [EnhancedAgentStep(step_id, DictGet(step, "type", "unknown"), step_number,
                               timestamp.value, None, None)
                EXCEPT !.inputs = [original_step |-> step],
                       !.perception_state =
                           _create_perception_snapshot_for_message(step, agent_id, nows[2])]
        mapped ==
            IF StepType(step) = "message"
            THEN [enhanced_step EXCEPT
                    !.interaction_state =
                        _create_interaction_snapshot_for_message(step, agent_id, nows[3]),
                    !.outputs = [message_content |-> DictGet(step, "content", "")]]
            ELSE IF StepType(step) = "tool"
            THEN [enhanced_step EXCEPT
                    !.action_state =
                        _create_action_snapshot_for_tool(step, agent_id, nows[2]),
                    !.outputs = [tool_output |-> DictGet(step, "output", None)]]
            ELSE enhanced_step
    IN  IF Raised(timestamp) THEN timestamp
        ELSE Return([mapped EXCEPT
                        !.complete_state =
                            _create_step_state(step, agent_id, timestamp.value)])

\* _parse_enhanced_step(step, step_number, agent_id); nows are the values the
\* successive datetime.utcnow() calls return.
_parse_enhanced_step(step, step_number, agent_id, nows) ==
    LET step_id == DictGet(step, "id", "step-" \o ToString(step_number))
        timestamp == TimeOrNow(step, "timestamp", nows[1])
        enhanced_step ==
            [EnhancedAgentStep(step_id, DictGet(step, "type", "unknown"), step_number,
                               timestamp.value, None, None)
                EXCEPT !.inputs = [original_step |-> step]]
        mapped ==
            IF StepType(step) = "message"
            THEN [enhanced_step EXCEPT
                    !.perception_state =
                        _create_perception_snapshot_for_message(step, agent_id, nows[2]),
                    !.interaction_state =
                        _create_interaction_snapshot_for_message(step, agent_id, nows[3]),
                    !.outputs = [message_content |-> DictGet(step, "content", "")]]
            ELSE IF StepType(step) = "tool"
            THEN [enhanced_step EXCEPT
                    !.action_state =
                        _create_action_snapshot_for_tool(step, agent_id, nows[2]),
                    !.outputs = [tool_output |-> DictGet(step, "output", None)]]
            ELSE enhanced_step
    IN  IF Raised(timestamp) THEN timestamp
        ELSE Return([mapped EXCEPT
                        !.complete_state =
                            _create_step_state(step, agent_id, timestamp.value)])

\* EnhancedAgentRun(...) as the connector calls it: start_time is a required
\* datetime, so pydantic rejects None.
NewEnhancedAgentRun(id, name, agent, start_time, end_time, status, initial_state) ==
    IF start_time = None
    THEN Raise("ValidationError", "1 validation error for EnhancedAgentRun start_time")
    ELSE Return(EnhancedAgentRun(id, name, agent, start_time, end_time, status,
                                 initial_state))

\* Variant that counts every step of a known type under each total.
CountKnownTypes(steps, types) ==
    Cardinality({i \in DOMAIN steps : StepType(steps[i]) \in {"message", "tool"}})

CountType(steps, types) == Cardinality({i \in DOMAIN steps : StepType(steps[i]) \in types})

----------------------------------------------------------------------------
(* Connector: the trace documents of the model *)

TsText(t) == DatePrefix \o ToString(t) \o "Z"

StatusValues == {"completed", "failed", "cancelled", "running", "paused", NoneStr}

\* A document with an id and a start time, with or without an agent id.
BaseHeader == [id |-> "r1", started_at |-> TsText(0)]
CoreHeaders == {BaseHeader, [agent_id |-> "agent-7"] @@ BaseHeader}
\* The same with a status or an end time, or with started_at missing or null.
HeaderVariants ==
    {[id |-> "r1"], [id |-> "r1", started_at |-> NoneStr]}
    \cup {[status |-> st] @@ BaseHeader : st \in StatusValues}
    \cup {[ended_at |-> e] @@ BaseHeader : e \in {TsText(5), NoneStr}}

\* The id and timestamp keys of a trace step: both present or both missing, or one of them.
StepKeys ==
    {[id |-> "s1", timestamp |-> TsText(1)], <<>>,
     [id |-> "s1"], [timestamp |-> TsText(1)]}
FullOrBare == {[id |-> "s1", timestamp |-> TsText(1)], <<>>}

MessageSteps ==
    {[type |-> "message", content |-> "hi"] @@ k : k \in StepKeys}
    \cup {[type |-> "message", content |-> "hi", role |-> r] @@ k :
            r \in {"user", "assistant"}, k \in FullOrBare}
    \cup {[type |-> "message", role |-> "user", id |-> "step-1", timestamp |-> TsText(1)]}

ToolSteps ==
    {[type |-> "tool", tool_name |-> "search", input |-> [q |-> "x"], output |-> [r |-> 1]] @@ k :
        k \in FullOrBare}
    \cup {[type |-> "tool", tool_name |-> "calc", input |-> [q |-> "x"], output |-> [r |-> 1],
           id |-> "s2", timestamp |-> TsText(2)],
          [type |-> "tool", id |-> "s1", timestamp |-> TsText(1)],
          [type |-> "tool", tool_name |-> "search", id |-> "s1"]}

OtherSteps ==
    {[type |-> "thought"], [type |-> "thought", tool_name |-> "search", id |-> "s1"]}

InputSteps == MessageSteps \cup ToolSteps \cup OtherSteps

\* Every list of up to MaxTraceSteps steps under a core header, and up to one step
\* under the others: nothing in the conversion of a step reads status, ended_at
\* or started_at.
Traces ==
    {[steps |-> steps] @@ h :
        h \in CoreHeaders,
        steps \in UNION {[1..n -> InputSteps] : n \in 0..MaxTraceSteps}}
    \cup {[steps |-> steps] @@ h :
        h \in HeaderVariants,
        steps \in UNION {[1..n -> InputSteps] : n \in 0..1}}

----------------------------------------------------------------------------
(* Connector: from_openai_trace_enhanced *)

InitConnector ==
    /\ trace \in Traces
    /\ run = None
    /\ result = NoResult
    /\ pc = "input"
    /\ error = None
    /\ clock = 0

\* The values returned by k successive datetime.utcnow() calls: the clock never
\* runs backwards. Entries past the k-th repeat the last value read.
UtcNowReads(k) ==
    {ns \in [1..3 -> clock..MaxClock] :
        /\ \A i \in 1..2 : ns[i] <= ns[i + 1]
        /\ \A i \in 1..3 : i > k => ns[i] = (IF k = 0 THEN clock ELSE ns[k])}

Fail(outcome) ==
    /\ pc' = "failed"
    /\ error' = outcome
    /\ run' = None

\* Variant that takes the entry out of the caller's document as it reads it
\* (dict.pop for dict.get).
DocumentAfterPop(d, key) == [k \in DOMAIN d \ {key} |-> d[k]]

\* The caller's document after trace_json.get(key, default): get reads the entry
\* and leaves the document as it was.
DocumentAfterGet(d, key) == d

\* Lines up to the construction of the run.
CreateRun ==
    /\ pc = "input"
    /\ LET started == DictGet(trace, "started_at", NoneStr)
       IN \E nows \in UtcNowReads(IF started = NoneStr THEN 2 ELSE 0) :
          LET agent == _create_agent_instance(trace, nows[1])
              initial_state == _create_initial_state(agent.value.id, trace, nows[2])
              start_time == _parse_time(started)
              end_time == _parse_time(DictGet(trace, "ended_at", NoneStr))
              created ==
                  IF Raised(agent) THEN agent
                  ELSE IF Raised(end_time) THEN end_time
                  ELSE NewEnhancedAgentRun(
                           DictGet(trace, "id", ""),
                           "OpenAI Agent Run " \o DictGet(trace, "id", ""),
                           agent.value, start_time.value, end_time.value,
                           _map_status(DictGet(trace, "status", "completed")),
                           initial_state.value)
          IN /\ clock' = nows[3]
             /\ IF Raised(created) THEN Fail(created)
                ELSE /\ run' = created.value
                     /\ pc' = "steps"
                     /\ error' = None
             /\ trace' = IF Raised(agent) \/ Raised(end_time) THEN trace
                         ELSE DocumentAfterGet(trace, "status")
    /\ UNCHANGED result

ReadsOf(step) ==
    IF DictGet(step, "timestamp", NoneStr) # NoneStr THEN 0
    ELSE IF StepType(step) = "message" THEN 3
    ELSE IF StepType(step) = "tool" THEN 2
    ELSE 1

\* One iteration of the loop over the trace steps.
ParseStep ==
    /\ pc = "steps"
    /\ Len(run.steps) < Len(TraceSteps(trace))
    /\ LET idx == Len(run.steps)
           step == TraceSteps(trace)[idx + 1]
       IN \E nows \in UtcNowReads(ReadsOf(step)) :
          LET enhanced_step == _parse_enhanced_step(step, idx, run.agent.id, nows)
          IN /\ clock' = nows[3]
             /\ IF Raised(enhanced_step) THEN Fail(enhanced_step)
                ELSE /\ run' = add_step(run, enhanced_step.value)
                     /\ UNCHANGED <<pc, error>>
    /\ UNCHANGED <<result, trace>>

\* The run metrics and the final state, and the return.
FinishRun ==
    /\ pc = "steps"
    /\ Len(run.steps) = Len(TraceSteps(trace))
    /\ LET steps == TraceSteps(trace)
           last_step == run.steps[Len(run.steps)]
       IN run' = [run EXCEPT
                    !.total_observations = CountType(steps, {"message", "tool"}),
                    !.total_actions = CountType(steps, {"tool"}),
                    !.total_messages = CountType(steps, {"message"}),
                    !.final_state =
                        IF run.steps # <<>> /\ last_step.complete_state # None
                        THEN last_step.complete_state
                        ELSE @]
    /\ pc' = "done"
    /\ UNCHANGED <<result, trace, error, clock>>

NextConnector ==
    \/ CreateRun
    \/ ParseStep
    \/ FinishRun

SpecConnector == InitConnector /\ [][NextConnector]_vars

----------------------------------------------------------------------------
(* Direct construction: EnhancedAgentRun(...) called with arguments *)

\* Values passed as status: the five of the specified enumeration and two others.
ConstructorStatuses ==
    {"running", "completed", "failed", "cancelled", "unknown", "paused", ""}

InitConstruct ==
    /\ run = None
    /\ result = NoResult
    /\ trace = NoTrace
    /\ pc = "new"
    /\ error = None
    /\ clock = 0

\* EnhancedAgentRun(id=..., name=..., agent=..., start_time=..., status=...)
Construct ==
    /\ pc = "new"
    /\ \E status \in ConstructorStatuses, start_time \in {None, Naive(0), Utc(0)} :
          LET created == NewEnhancedAgentRun("run-001", "Test Run", TestAgent,
                                             start_time, None, status, None)
          IN /\ result' = [op |-> "EnhancedAgentRun", status |-> status,
                           start_time |-> start_time] @@ created
             /\ IF Raised(created) THEN Fail(created)
                ELSE /\ run' = created.value
                     /\ pc' = "direct"
                     /\ error' = None
    /\ UNCHANGED <<trace, clock>>

NextConstruct ==
    \/ Construct
    \/ AddTimelineStep
    \/ AddTimelineSubStep

SpecConstruct == InitConstruct /\ [][NextConstruct]_vars

----------------------------------------------------------------------------
(* Connector: documents with timestamps that are not ISO-8601 *)

MalformedTexts == {"yesterday", "noonZ"}

\* The base header, and the same with a malformed started_at or ended_at.
MalformedHeaders ==
    {BaseHeader}
    \cup {[BaseHeader EXCEPT !.started_at = text] : text \in MalformedTexts}
    \cup {[ended_at |-> text] @@ BaseHeader : text \in MalformedTexts}

\* Steps with a well-formed timestamp or none, and steps of each kind with a
\* malformed one.
StepsWithMalformed ==
    {[type |-> "message", content |-> "hi", id |-> "s1", timestamp |-> TsText(1)],
     [type |-> "tool", tool_name |-> "search"]}
    \cup {[type |-> "message", content |-> "hi", timestamp |-> text] : text \in MalformedTexts}
    \cup {[type |-> "tool", tool_name |-> "search", id |-> "s2", timestamp |-> "yesterday"],
          [type |-> "thought", timestamp |-> "noonZ"]}

TracesWithMalformed ==
    {[steps |-> steps] @@ h :
        h \in MalformedHeaders,
        steps \in UNION {[1..n -> StepsWithMalformed] : n \in 0..MaxTraceSteps}}

InitMalformed ==
    /\ trace \in TracesWithMalformed
    /\ run = None
    /\ result = NoResult
    /\ pc = "input"
    /\ error = None
    /\ clock = 0

SpecMalformed == InitMalformed /\ [][NextConnector]_vars

----------------------------------------------------------------------------
(* Connector: two calls on the same document *)

\* The caller keeps the run of the first call and calls the connector again with
\* the document as the first call left it; the time source may have moved on.
CallAgain ==
    /\ pc = "done"
    /\ result = NoResult
    /\ result' = [op |-> "first_call", value |-> run]
    /\ run' = None
    /\ pc' = "input"
    /\ UNCHANGED <<trace, error, clock>>

NextTwoCalls ==
    \/ CreateRun
    \/ ParseStep
    \/ FinishRun
    \/ CallAgain

\* The documents handed over twice: every one of up to one step, and every longer
\* one whose steps carry no timestamp, so that each step reads the time source.
InitTwoCalls ==
    /\ InitConnector
    /\ \/ Len(trace.steps) <= 1
       \/ \A i \in DOMAIN trace.steps : "timestamp" \notin DOMAIN trace.steps[i]

SpecTwoCalls == InitTwoCalls /\ [][NextTwoCalls]_vars

----------------------------------------------------------------------------
(* Serializer: json() and parse_raw(), which every class inherits from      *)
(* BaseModel. Both walk the fields the class declares. Writing a field      *)
(* depends on its declared type: a datetime becomes ISO-8601 text, None an  *)
(* explicit null, an enum member its string tag, a nested model, list or    *)
(* map is written member by member, and a value declared Any is written by  *)
(* the type it has at run time. Reading validates the document against the  *)
(* declarations: a declared datetime is parsed from its text, a key that is *)
(* missing takes the declared default or is a validation error when the     *)
(* field is required, and a value declared Any stays the JSON value it is.  *)
(* Keys that are not declared are kept on both sides (extra = "allow").     *)
(* The tables list the fields that the records of this model carry.         *)

\* Declared types: str, int, float, bool and datetime, and two kinds of value
\* declared Any. AnyJson is one that was read from the JSON trace, which is a
\* JSON value already; AnyObject is one that the caller hands over, tagged with
\* the Python type it has: [str |-> text] or [datetime |-> dt].
Type(kind) == [kind |-> kind]
Enum(members) == [kind |-> "Enum", members |-> members]
Optional(T) == [kind |-> "Optional", of |-> T]
List(T) == [kind |-> "List", of |-> T]
Dict(T) == [kind |-> "Dict", of |-> T]
Model(class) == [kind |-> "Model", class |-> class]

\* name: T = Field(...) and name: T = Field(default) or Field(default_factory=...)
Required(T) == [type |-> T, required |-> TRUE, default |-> None]
Default(T, value) == [type |-> T, required |-> FALSE, default |-> value]

\* ontology/run.py
RunFields(class) ==
    CASE class = "AgentMessage" ->
           [id |-> Default(Optional(Type("str")), NoneStr),
            role |-> Required(Type("str")),
            content |-> Required(Type("str")),
            timestamp |-> Default(Optional(Type("datetime")), None)]
      [] class = "ToolCall" ->
           [id |-> Default(Optional(Type("str")), NoneStr),
            name |-> Default(Optional(Type("str")), NoneStr),
            input |-> Default(Optional(Dict(Type("AnyJson"))), None),
            output |-> Default(Optional(Dict(Type("AnyJson"))), None),
            status |-> Default(Optional(Type("str")), NoneStr),
            start_time |-> Default(Optional(Type("datetime")), None),
            end_time |-> Default(Optional(Type("datetime")), None)]
      [] class = "AgentError" ->
           [message |-> Required(Type("str")),
            code |-> Default(Optional(Type("str")), NoneStr),
            timestamp |-> Default(Optional(Type("datetime")), None)]
      [] class = "AgentStep" ->
           [id |-> Default(Optional(Type("str")), NoneStr),
            name |-> Default(Optional(Type("str")), NoneStr),
            status |-> Default(Optional(Type("str")), NoneStr),
            start_time |-> Default(Optional(Type("datetime")), None),
            end_time |-> Default(Optional(Type("datetime")), None),
            messages |-> Default(List(Model("AgentMessage")), <<>>),
            tool_calls |-> Default(List(Model("ToolCall")), <<>>),
            sub_steps |-> Default(List(Model("AgentStep")), <<>>),
            error |-> Default(Optional(Model("AgentError")), None)]
      [] class = "AgentRun" ->
           [id |-> Required(Type("str")),
            status |-> Default(Optional(Type("str")), NoneStr),
            start_time |-> Default(Optional(Type("datetime")), None),
            end_time |-> Default(Optional(Type("datetime")), None),
            steps |-> Default(List(Model("AgentStep")), <<>>),
            metadata |-> Default(Dict(Type("AnyJson")), <<>>)]

\* ontology/layers/identity.py
IdentityFields(class) ==
    CASE class = "AgentCapability" ->
           [name |-> Required(Type("str")),
            version |-> Default(Type("str"), "1.0.0"),
            enabled |-> Default(Type("bool"), TRUE)]
      [] class = "AgentConfiguration" ->
           [model_id |-> Default(Optional(Type("str")), NoneStr),
            parameters |-> Default(Dict(Type("AnyJson")), <<>>)]
      [] class = "AgentMetadata" ->
           [created_at |-> Required(Type("datetime")),
            created_by |-> Required(Type("str")),
            version |-> Required(Type("str")),
            tags |-> Default(List(Type("str")), <<>>)]
      [] class = "AgentInstance" ->
           [id |-> Required(Type("str")),
            name |-> Required(Type("str")),
            types |-> Required(List(Enum(    \* AgentType
                {"conversational", "task-execution", "reasoning", "learning",
                 "hybrid", "general", "deliberative", "reactive"}))),
            domains |-> Default(List(Enum(   \* AgentDomain
                {"customer-support", "finance", "software-development",
                 "healthcare", "education", "general"})), <<>>),
            capabilities |-> Default(List(Model("AgentCapability")), <<>>),
            configuration |-> Required(Model("AgentConfiguration")),
            metadata |-> Required(Model("AgentMetadata"))]

\* ontology/layers/state.py
StateFields(class) ==
    CASE class = "AgentState" ->
           [id |-> Required(Type("str")),
            agent_id |-> Required(Type("str")),
            status |-> Required(Enum(        \* AgentStatus
                {"initializing", "ready", "active", "busy", "paused", "error",
                 "shutting-down", "terminated"})),
            health_score |-> Default(Type("float"), Num(1)),
            uptime |-> Required(Type("float")),
            last_activity |-> Required(Type("datetime")),
            configuration_hash |-> Required(Type("str"))]
      [] class = "ExecutionState" ->
           [id |-> Required(Type("str")),
            phase |-> Required(Enum(         \* ExecutionPhase
                {"perception", "reasoning", "planning", "execution", "monitoring",
                 "learning", "idle"})),
            active_tasks |-> Default(List(Type("str")), <<>>),
            pending_actions |-> Default(List(Type("str")), <<>>)]
      [] class = "CognitiveState" ->
           [id |-> Required(Type("str")),
            attention_focus |-> Default(List(Type("str")), <<>>),
            working_memory |-> Default(List(Type("str")), <<>>),
            active_goals |-> Default(List(Type("str")), <<>>),
            active_plans |-> Default(List(Type("str")), <<>>)]
      [] class = "PerceptualState" ->
           [id |-> Required(Type("str")),
            active_sensors |-> Default(List(Type("str")), <<>>),
            sensor_readings |-> Default(Dict(Type("AnyJson")), <<>>),
            observation_buffer |-> Default(List(Type("str")), <<>>)]
      [] class = "CompleteState" ->
           [timestamp |-> Required(Type("datetime")),
            agent_state |-> Required(Model("AgentState")),
            execution_state |-> Required(Model("ExecutionState")),
            cognitive_state |-> Required(Model("CognitiveState")),
            perceptual_state |-> Required(Model("PerceptualState"))]

\* ontology/layers/perception.py
PerceptionFields(class) ==
    CASE class = "Observation" ->
           [id |-> Required(Type("str")),
            processor_id |-> Required(Type("str")),
            signal_ids |-> Required(List(Type("str"))),
            type |-> Required(Type("str")),
            content |-> Required(Type("AnyJson")),
            confidence |-> Default(Type("float"), Num(1)),
            timestamp |-> Required(Type("datetime")),
            metadata |-> Default(Dict(Type("AnyJson")), <<>>)]
      [] class = "PerceptionSnapshot" ->
           [timestamp |-> Required(Type("datetime")),
            current_observations |-> Default(List(Model("Observation")), <<>>),
            processing_queue_size |-> Default(Type("int"), 0)]

\* ontology/layers/interaction.py
InteractionFields(class) ==
    CASE class = "Message" ->
           [id |-> Required(Type("str")),
            type |-> Required(Enum(          \* MessageType
                {"request", "response", "notification", "command", "query",
                 "update", "error", "acknowledgment"})),
            sender_id |-> Required(Type("str")),
            recipient_id |-> Required(Type("str")),
            interface_id |-> Required(Type("str")),
            content |-> Required(Type("AnyJson")),
            timestamp |-> Required(Type("datetime"))]
      [] class = "InteractionSnapshot" ->
           [timestamp |-> Required(Type("datetime")),
            recent_messages |-> Default(List(Model("Message")), <<>>),
            pending_messages |-> Default(Type("int"), 0)]

\* ontology/layers/action.py
ActionFields(class) ==
    CASE class = "ActionExecution" ->
           [id |-> Required(Type("str")),
            action_plan_id |-> Required(Type("str")),
            status |-> Required(Enum(        \* ActionStatus
                {"planned", "validated", "executing", "completed", "failed",
                 "cancelled", "suspended"})),
            start_time |-> Required(Type("datetime")),
            end_time |-> Default(Optional(Type("datetime")), None),
            executor_id |-> Required(Type("str")),
            actual_parameters |-> Default(Dict(Type("AnyJson")), <<>>),
            results |-> Default(Type("AnyJson"), None)]
      [] class = "ActionSnapshot" ->
           [timestamp |-> Required(Type("datetime")),
            planned_actions |-> Default(List(Model("ActionPlan")), <<>>),
            executing_actions |-> Default(List(Model("ActionExecution")), <<>>),
            completed_actions |-> Default(List(Model("ActionExecution")), <<>>),
            failed_actions |-> Default(List(Model("ActionExecution")), <<>>),
            action_queue_size |-> Default(Type("int"), 0)]

\* ontology/enhanced_run.py
EnhancedRunFields(class) ==
    CASE class = "EnhancedAgentStep" ->
           [id |-> Required(Type("str")),
            name |-> Required(Type("str")),
            step_number |-> Required(Type("int")),
            start_time |-> Required(Type("datetime")),
            end_time |-> Default(Optional(Type("datetime")), None),
            duration |-> Default(Optional(Type("float")), None),
            perception_state |-> Default(Optional(Model("PerceptionSnapshot")), None),
            action_state |-> Default(Optional(Model("ActionSnapshot")), None),
            complete_state |-> Default(Optional(Model("CompleteState")), None),
            interaction_state |-> Default(Optional(Model("InteractionSnapshot")), None),
            inputs |-> Default(Dict(Type("AnyJson")), <<>>),
            outputs |-> Default(Dict(Type("AnyJson")), <<>>),
            metadata |-> Default(Dict(Type("AnyObject")), <<>>),
            sub_steps |-> Default(List(Model("EnhancedAgentStep")), <<>>)]
      [] class = "EnhancedAgentRun" ->
           [id |-> Required(Type("str")),
            name |-> Required(Type("str")),
            agent |-> Required(Model("AgentInstance")),
            start_time |-> Required(Type("datetime")),
            end_time |-> Default(Optional(Type("datetime")), None),
            duration |-> Default(Optional(Type("float")), None),
            status |-> Default(Type("str"), "running"),
            initial_state |-> Default(Optional(Model("CompleteState")), None),
            final_state |-> Default(Optional(Model("CompleteState")), None),
            steps |-> Default(List(Model("EnhancedAgentStep")), <<>>),
            total_observations |-> Default(Type("int"), 0),
            total_actions |-> Default(Type("int"), 0),
            total_messages |-> Default(Type("int"), 0),
            performance_metrics |-> Default(Dict(Type("float")), <<>>)]

\* The declared fields of a class.
Fields(class) ==
    CASE class \in {"AgentMessage", "ToolCall", "AgentError", "AgentStep", "AgentRun"} ->
           RunFields(class)
      [] class \in {"AgentCapability", "AgentConfiguration", "AgentMetadata",
                    "AgentInstance"} -> IdentityFields(class)
      [] class \in {"AgentState", "ExecutionState", "CognitiveState", "PerceptualState",
                    "CompleteState"} -> StateFields(class)
      [] class \in {"Observation", "PerceptionSnapshot"} -> PerceptionFields(class)
      [] class \in {"Message", "InteractionSnapshot"} -> InteractionFields(class)
      [] class \in {"ActionExecution", "ActionSnapshot"} -> ActionFields(class)
      [] class \in {"EnhancedAgentStep", "EnhancedAgentRun"} -> EnhancedRunFields(class)

\* The JSON text of a timestamp: null for None, isoformat() for a naive time,
\* and for a UTC time the same text with the offset written "Z" (pydantic 2).
EncodeTime(dt) ==
    IF dt = None THEN NoneStr
    ELSE IF dt.tz = "utc" THEN isoformat([dt EXCEPT !.tz = "naive"]) \o "Z"
    ELSE isoformat(dt)

\* Python None in a slot declared Optional[T], and null in the place of the
\* document where a T is written: a slot that holds text holds NoneStr, every
\* other slot None.
NoneOf(T) == IF T.kind = "str" THEN NoneStr ELSE None
JsonNull(T) == IF T.kind \in {"str", "datetime"} THEN NoneStr ELSE None

\* The JSON value written for the value v of a field declared with type T.
RECURSIVE Dump(_, _)
Dump(T, v) ==
    CASE T.kind = "datetime" -> EncodeTime(v)
      [] T.kind = "Optional" -> IF v = NoneOf(T.of) THEN JsonNull(T.of) ELSE Dump(T.of, v)
      [] T.kind \in {"List", "Dict"} -> [k \in DOMAIN v |-> Dump(T.of, v[k])]
      [] T.kind = "Model" ->
           LET fields == Fields(T.class)
           IN  [k \in DOMAIN v |->
                    IF k \in DOMAIN fields THEN Dump(fields[k].type, v[k]) ELSE v[k]]
      [] T.kind = "AnyObject" ->
           IF "datetime" \in DOMAIN v THEN [str |-> EncodeTime(v.datetime)] ELSE v
      [] OTHER -> v

\* Whether the JSON value j is rejected for a field declared with type T.
RECURSIVE Invalid(_, _)
Invalid(T, j) ==
    CASE T.kind = "str" -> j = JsonNull(T)
      [] T.kind = "datetime" -> j = JsonNull(T) \/ Raised(fromisoformat(j))
      [] T.kind = "Enum" -> j \notin T.members
      [] T.kind = "Optional" -> j # JsonNull(T.of) /\ Invalid(T.of, j)
      [] T.kind \in {"List", "Dict"} -> \E k \in DOMAIN j : Invalid(T.of, j[k])
      [] T.kind = "Model" ->
           LET fields == Fields(T.class)
           IN  \E f \in DOMAIN fields :
                  IF f \in DOMAIN j THEN Invalid(fields[f].type, j[f])
                  ELSE fields[f].required
      [] OTHER -> FALSE

\* The value read from the valid JSON value j for a field declared with type T.
RECURSIVE Parse(_, _)
Parse(T, j) ==
    CASE T.kind = "datetime" -> fromisoformat(j).value
      [] T.kind = "Optional" -> IF j = JsonNull(T.of) THEN NoneOf(T.of) ELSE Parse(T.of, j)
      [] T.kind \in {"List", "Dict"} -> [k \in DOMAIN j |-> Parse(T.of, j[k])]
      [] T.kind = "Model" ->
           LET fields == Fields(T.class)
           IN  [k \in DOMAIN fields \cup DOMAIN j |->
                    IF k \notin DOMAIN j THEN fields[k].default
                    ELSE IF k \in DOMAIN fields THEN Parse(fields[k].type, j[k])
                    ELSE j[k]]
      [] OTHER -> j

Validate(T, j) ==
    IF Invalid(T, j)
    THEN Raise("ValidationError", "validation error for " \o T.class)
    ELSE Return(Parse(T, j))

\* run.json() and EnhancedAgentRun.parse_raw(document)
toDocument(r) == Dump(Model("EnhancedAgentRun"), r)
fromDocument(doc) == Validate(Model("EnhancedAgentRun"), doc)

\* Serialize the run and read the document back.
RoundTrip ==
    /\ pc \in {"done", "direct"}
    /\ LET document == toDocument(run)
       IN  result' = [op |-> "round_trip", document |-> document,
                      outcome |-> fromDocument(document)]
    /\ UNCHANGED <<run, trace, pc, error, clock>>

\* EnhancedAgentRun.parse_raw(document) for a document that differs from the one
\* written: without the required start_time, with a start_time that is no
\* timestamp, without the keys status and steps, or with a key not declared.
ReadDocument ==
    /\ pc = "direct"
    /\ run.steps = <<>>
    /\ LET doc == toDocument(run)
       IN  \E document \in {[k \in DOMAIN doc \ {"start_time"} |-> doc[k]],
                            [doc EXCEPT !.start_time = "yesterday"],
                            [k \in DOMAIN doc \ {"status", "steps"} |-> doc[k]],
                            [note |-> "kept"] @@ doc} :
              result' = [op |-> "parse_raw", document |-> document,
                         outcome |-> fromDocument(document)]
    /\ UNCHANGED <<run, trace, pc, error, clock>>

\* run.add_step(EnhancedAgentStep(..., metadata={...})) as the first step; the
\* metadata map holds a str or a datetime under one key.
AddStepWithMetadata ==
    /\ pc = "direct"
    /\ run.steps = <<>>
    /\ \E metadata \in {[note |-> [str |-> "x"]],
                         [deadline |-> [str |-> DatePrefix \o "1"]],
                         [deadline |-> [datetime |-> Naive(1)]],
                         [deadline |-> [datetime |-> Utc(1)]]} :
          run' = add_step(run, [EnhancedAgentStep("step-0", "Step", 0, Naive(0), None, None)
                                   EXCEPT !.metadata = metadata])
    /\ result' = NoResult
    /\ UNCHANGED <<trace, pc, error, clock>>

InitRoundTrip == InitConnector \/ InitDirect

NextRoundTrip ==
    \/ CreateRun
    \/ ParseStep
    \/ FinishRun
    \/ AddTimelineStep
    \/ AddTimelineSubStep
    \/ AddStepWithMetadata
    \/ RoundTrip
    \/ ReadDocument

SpecRoundTrip == InitRoundTrip /\ [][NextRoundTrip]_vars

----------------------------------------------------------------------------
(* What the step-tree operations are specified to return *)

\* The steps of a forest in pre-order: a step, then its sub-steps, then the next step.
RECURSIVE Preorder(_)
Preorder(steps) ==
    IF steps = <<>> THEN <<>>
    ELSE <<Head(steps)>> \o Preorder(Head(steps).sub_steps) \o Preorder(Tail(steps))

FirstWithId(seq, step_id) ==
    IF \E i \in DOMAIN seq : seq[i].id = step_id
    THEN seq[CHOOSE i \in DOMAIN seq :
                /\ seq[i].id = step_id
                /\ \A j \in 1..(i - 1) : seq[j].id # step_id]
    ELSE None

\* Number of steps on the longest chain from a top-level step down through sub-steps.
RECURSIVE LongestChain(_)
LongestChain(steps) ==
    IF steps = <<>> THEN 0
    ELSE Max(1 + LongestChain(Head(steps).sub_steps), LongestChain(Tail(steps)))

\* Mean of the durations that are not None, 0 when there is none.
MeanOfDurations(steps) ==
    LET all == Preorder(steps)
        has == {i \in DOMAIN all : all[i].duration # None}
        total == RatSum([i \in DOMAIN all |->
                           IF i \in has THEN all[i].duration ELSE Num(0)])
    IN  IF has = {} THEN Num(0) ELSE RatDiv(total, Cardinality(has))

Computes(key) == key \notin DOMAIN run.performance_metrics

\* C1: a run with zero steps reports max_nesting_depth = 0.
C1_EmptyRunDepthZero ==
    (result.op = "calculate_metrics" /\ run.steps = <<>> /\ Computes("max_nesting_depth"))
        => result.value.max_nesting_depth = Num(0)

\* C2: for every run with at least one step, calculate_metrics reports as
\* max_nesting_depth the number of steps on the longest chain from a top-level
\* step down through sub-steps.
C2_DepthIsLongestChain_Original ==
    (result.op = "calculate_metrics" /\ run.steps # <<>>)
        => result.value.max_nesting_depth = Num(LongestChain(run.steps))

\* The same for runs whose performance_metrics holds no entry named
\* max_nesting_depth: what get_max_depth computes is the longest chain.
C2_DepthIsLongestChain ==
    (result.op = "calculate_metrics" /\ run.steps # <<>> /\ Computes("max_nesting_depth"))
        => result.value.max_nesting_depth = Num(LongestChain(run.steps))

\* A run whose deepest chain has two steps and does not start at the first step.
C2_Witness ==
    /\ result.op = "calculate_metrics"
    /\ Computes("max_nesting_depth")
    /\ Len(run.steps) = 2
    /\ run.steps[1].sub_steps = <<>>
    /\ run.steps[2].sub_steps # <<>>
    /\ result.value.max_nesting_depth = Num(2)

\* C3: average_step_duration is the mean of duration over all steps, sub-steps
\* included, whose duration is not None (a duration of 0 counted), 0 if there is none.
C3_AverageOverNonNull ==
    (result.op = "calculate_metrics" /\ Computes("average_step_duration"))
        => result.value.average_step_duration = MeanOfDurations(run.steps)

\* C4: get_step_by_id returns the first step with that id in pre-order, and None
\* exactly when no step at any depth has it.
C4_FirstInPreorder ==
    result.op = "get_step_by_id"
        => result.value = FirstWithId(Preorder(run.steps), result.step_id)

\* The id is carried by a sub-step and by a later top-level step; the sub-step wins.
C4_Witness ==
    /\ result.op = "get_step_by_id"
    /\ Len(run.steps) = 2
    /\ run.steps[1].id # result.step_id
    /\ run.steps[2].id = result.step_id
    /\ run.steps[1].sub_steps # <<>>
    /\ result.value = run.steps[1].sub_steps[1]
    /\ result.value # run.steps[2]

\* The steps of a forest in pre-order, each with its nesting depth (roots at 0).
RECURSIVE PreorderDepth(_, _)
PreorderDepth(steps, depth) ==
    IF steps = <<>> THEN <<>>
    ELSE <<[step |-> Head(steps), depth |-> depth]>>
         \o PreorderDepth(Head(steps).sub_steps, depth + 1)
         \o PreorderDepth(Tail(steps), depth)

RECURSIVE EventsOf(_)
EventsOf(nodes) ==
    IF nodes = <<>> THEN <<>>
    ELSE LET n == Head(nodes)
         IN  <<[timestamp |-> n.step.start_time, type |-> "step_start",
                step_id |-> n.step.id, step_name |-> n.step.name, depth |-> n.depth]>>
             \o (IF n.step.end_time # None
                 THEN <<[timestamp |-> n.step.end_time, type |-> "step_end",
                         step_id |-> n.step.id, step_name |-> n.step.name,
                         depth |-> n.depth]>>
                 ELSE <<>>)
             \o EventsOf(Tail(nodes))

\* Position of the i-th emitted event in the ascending order by timestamp in which
\* equal timestamps keep their emission order.
RankOf(events, i) ==
    Cardinality({j \in DOMAIN events : events[j].timestamp.t < events[i].timestamp.t})
    + Cardinality({j \in 1..i : events[j].timestamp.t = events[i].timestamp.t})

AscendingStable(events) ==
    [r \in DOMAIN events |-> events[CHOOSE i \in DOMAIN events : RankOf(events, i) = r]]

AllComparable(steps) ==
    LET ev == EventsOf(PreorderDepth(steps, 0))
    IN  \A i, j \in DOMAIN ev : Comparable(ev[i].timestamp, ev[j].timestamp)

\* C5: get_timeline returns one step_start event per step and one step_end event
\* per step with an end_time, ascending by timestamp, equal timestamps in their
\* depth-first emission order.
C5_TimelineSortedStable ==
    result.op = "get_timeline"
        => /\ ~Raised(result)
           /\ result.value = AscendingStable(EventsOf(PreorderDepth(run.steps, 0)))

\* The same for runs whose timestamps are all naive or all aware.
TimelineSortedStableWhenComparable ==
    (result.op = "get_timeline" /\ AllComparable(run.steps))
        => /\ ~Raised(result)
           /\ result.value = AscendingStable(EventsOf(PreorderDepth(run.steps, 0)))

\* A timeline of four events with a tie and an end before a later start.
TimelineWitness ==
    /\ result.op = "get_timeline"
    /\ ~Raised(result)
    /\ Len(result.value) = 4
    /\ result.value # EventsOf(PreorderDepth(run.steps, 0))
    /\ \E i \in 1..3 : result.value[i].timestamp = result.value[i + 1].timestamp

----------------------------------------------------------------------------
(* What the serializer is specified to return *)

\* C6: serializing a run and deserializing the document reproduces the run field
\* for field, nested steps and sub-steps in their order, for runs returned by the
\* connector and for runs built directly.
C6_RoundTrip ==
    result.op = "round_trip"
        => ~Raised(result.outcome) /\ result.outcome.value = run

\* Whether every value handed over in a metadata map is a str.
RECURSIVE OnlyText(_)
OnlyText(steps) ==
    \A i \in DOMAIN steps :
        /\ \A k \in DOMAIN steps[i].metadata : "str" \in DOMAIN steps[i].metadata[k]
        /\ OnlyText(steps[i].sub_steps)

\* The round trip reproduces every run whose free-form maps hold JSON values only.
RoundTripOfJsonValues ==
    (result.op = "round_trip" /\ OnlyText(run.steps))
        => ~Raised(result.outcome) /\ result.outcome.value = run

\* A document is rejected exactly when its start_time is missing or no timestamp,
\* and a missing status and missing steps are read as their declared defaults.
ReadDocumentValidates ==
    (result.op = "parse_raw")
        => /\ Raised(result.outcome)
                <=> (\/ "start_time" \notin DOMAIN result.document
                     \/ result.document.start_time = "yesterday")
           /\ ("status" \notin DOMAIN result.document)
                => (result.outcome.value.status = "running"
                    /\ result.outcome.value.steps = <<>>)
           /\ ("note" \in DOMAIN result.document)
                => result.outcome.value.note = "kept"

----------------------------------------------------------------------------
(* What the connector is specified to return *)

Returned == pc = "done"

\* The converted step of the i-th trace step, once the loop has passed it.
Converted(i) == pc \in {"steps", "done"} /\ i \in DOMAIN run.steps

StatusTable == {"completed", "failed", "cancelled", "running"}

\* C7, as stated: the trace status is mapped through the table to itself, and every
\* other value and a missing status key to unknown.
C7_StatusMapped_Original ==
    Returned =>
        run.status = (IF "status" \in DOMAIN trace /\ trace.status \in StatusTable
                      THEN trace.status ELSE "unknown")

\* C7, amended: a missing status key is mapped to completed; a status in the table
\* to itself; every other value, null included, to unknown.
C7_StatusMapped ==
    Returned =>
        run.status = (IF "status" \notin DOMAIN trace THEN "completed"
                      ELSE IF trace.status \in StatusTable THEN trace.status
                      ELSE "unknown")

C7_Witness ==
    /\ Returned
    /\ "status" \in DOMAIN trace
    /\ trace.status = "paused"
    /\ run.status = "unknown"

\* C8: a trace whose started_at (or ended_at) is absent or null is not an error:
\* the conversion completes and returns a run.
C8_MissingTimeIsNoError ==
    (\/ DictGet(trace, "started_at", NoneStr) = NoneStr
     \/ DictGet(trace, "ended_at", NoneStr) = NoneStr)
        => pc # "failed"

\* C9: the interaction snapshot of a converted message step holds exactly one
\* message, with the step's content, the fixed interface id, and the direction the
\* role gives: a response from the agent to the user for assistant, a request from
\* the user to the agent otherwise.
C9_MessageOfMessageStep ==
    \A i \in DOMAIN TraceSteps(trace) :
        (Converted(i) /\ StepType(trace.steps[i]) = "message") =>
            LET step == trace.steps[i]
                snapshot == run.steps[i].interaction_state
                m == snapshot.recent_messages[1]
            IN  /\ snapshot # None
                /\ Len(snapshot.recent_messages) = 1
                /\ "content" \in DOMAIN step => m.content = step.content
                /\ m.interface_id = "openai-api"
                /\ IF "role" \in DOMAIN step /\ step.role = "assistant"
                   THEN m.type = "response" /\ m.sender_id = run.agent.id
                        /\ m.recipient_id = "user"
                   ELSE m.type = "request" /\ m.sender_id = "user"
                        /\ m.recipient_id = run.agent.id

\* A returned run with a message step of an assistant and one with no role.
C9_Witness ==
    /\ Returned
    /\ Len(run.steps) = 2
    /\ StepType(trace.steps[1]) = "message"
    /\ StepType(trace.steps[2]) = "message"
    /\ DictGet(trace.steps[1], "role", NoneStr) = "assistant"
    /\ "role" \notin DOMAIN trace.steps[2]
    /\ run.steps[1].interaction_state.recent_messages[1].sender_id = "agent-7"
    /\ run.steps[2].interaction_state.recent_messages[1].type = "request"

\* The values nested in an ActionExecution that are tool invocations.
NestedToolInvocations(action_execution) ==
    {action_execution[k] :
        k \in {f \in DOMAIN action_execution \ {"id", "action_plan_id", "status", "executor_id"} :
                 "tool_name" \in DOMAIN action_execution[f]}}

\* C10: the action snapshot of a converted tool step holds exactly one
\* ActionExecution, in the completed list with status completed, and it has a nested
\* ToolInvocation with the step's tool_name, input parameters and output data.
C10_ToolInvocationNested ==
    \A i \in DOMAIN TraceSteps(trace) :
        (Converted(i) /\ StepType(trace.steps[i]) = "tool") =>
            LET step == trace.steps[i]
                snapshot == run.steps[i].action_state
                execution == snapshot.completed_actions[1]
            IN  /\ snapshot # None
                /\ Len(snapshot.completed_actions) = 1
                /\ snapshot.executing_actions = <<>>
                /\ snapshot.failed_actions = <<>>
                /\ snapshot.planned_actions = <<>>
                /\ execution.status = "completed"
                /\ \E inv \in NestedToolInvocations(execution) :
                      /\ inv.tool_name = DictGet(step, "tool_name", "")
                      /\ inv.input_parameters = DictGet(step, "input", <<>>)
                      /\ inv.output_data = DictGet(step, "output", None)

\* What does hold of a tool step: one completed ActionExecution that carries the
\* step's input and output, and no tool name.
ToolStepExecution ==
    \A i \in DOMAIN TraceSteps(trace) :
        (Converted(i) /\ StepType(trace.steps[i]) = "tool") =>
            LET step == trace.steps[i]
                snapshot == run.steps[i].action_state
                execution == snapshot.completed_actions[1]
            IN  /\ snapshot # None
                /\ Len(snapshot.completed_actions) = 1
                /\ execution.status = "completed"
                /\ execution.actual_parameters = DictGet(step, "input", <<>>)
                /\ execution.results = DictGet(step, "output", None)
                /\ NestedToolInvocations(execution) = {}

----------------------------------------------------------------------------
(* What the connector is specified to return: counts, order, ids *)

\* The raw steps of the trace whose type is one of the given ones.
RawStepsOfType(types) ==
    {i \in DOMAIN TraceSteps(trace) :
        "type" \in DOMAIN trace.steps[i] /\ trace.steps[i].type \in types}

\* C11: the returned run counts the raw steps of type message as total_messages, of
\* type tool as total_actions and of either type as total_observations; steps of
\* any other type are counted nowhere.
C11_TotalsCountRawSteps ==
    Returned =>
        /\ run.total_messages = Cardinality(RawStepsOfType({"message"}))
        /\ run.total_actions = Cardinality(RawStepsOfType({"tool"}))
        /\ run.total_observations = Cardinality(RawStepsOfType({"message", "tool"}))
        /\ run.total_observations = run.total_messages + run.total_actions

\* A returned run of a message step and a tool step tells the three totals apart.
C11_Witness ==
    /\ Returned
    /\ Len(run.steps) = 2
    /\ StepType(trace.steps[1]) = "message"
    /\ StepType(trace.steps[2]) = "tool"
    /\ run.total_messages = 1
    /\ run.total_actions = 1
    /\ run.total_observations = 2

\* The time source stood still at its first value through every read so far.
ClockFrozen == clock = 0

SecondCallDiffersWhenClockMoves ==
    /\ Returned
    /\ result.op = "first_call"
    /\ ~ClockFrozen
    /\ run # result.value

----------------------------------------------------------------------------
(* What the connector is specified to do with a malformed timestamp *)

\* The ISO-8601 texts of the model's ten seconds, with Z, with +00:00 or naive.
IsoTexts ==
    {DatePrefix \o ToString(t) \o z : t \in 0..9, z \in {"", "Z", "+00:00"}}

\* The value under the key is a text and is not ISO-8601.
Malformed(d, key) == key \in DOMAIN d /\ d[key] \notin IsoTexts \cup {NoneStr}

MalformedSteps == {i \in DOMAIN TraceSteps(trace) : Malformed(trace.steps[i], "timestamp")}
MalformedHeader == Malformed(trace, "started_at") \/ Malformed(trace, "ended_at")

\* C13: a trace with a malformed started_at, ended_at or step timestamp is never
\* converted: no run is returned, the conversion ends with the error raised and no
\* run, and no step with a malformed timestamp is ever converted with a default or
\* passed over.
C13_MalformedTimestampFails ==
    /\ Returned => ~MalformedHeader /\ MalformedSteps = {}
    /\ run # None =>
          /\ ~MalformedHeader
          /\ \A i \in MalformedSteps : Len(run.steps) < i
    /\ (pc = "failed" /\ (MalformedHeader \/ MalformedSteps # {})) =>
          /\ error.error = "ValueError"
          /\ run = None

\* The conversion failed at the second step, after the first one was converted.
C13_Witness ==
    /\ pc = "failed"
    /\ run = None
    /\ error.error = "ValueError"
    /\ ~MalformedHeader
    /\ MalformedSteps = {2}
    /\ trace.steps[2].timestamp = "noonZ"
    /\ error.message = "Invalid isoformat string: 'noon+00:00'"

\* text has sub as a substring
Contains(text, sub) ==
    \E k \in 1..(Len(text) - Len(sub) + 1) : SubSeq(text, k, k + Len(sub) - 1) = sub

\* The message names the step at the (0-based) index: the word step with the index,
\* or the id the step has or is given.
NamesStep(message, index) ==
    \/ Contains(message, "step") /\ Contains(message, ToString(index))
    \/ Contains(message, DictGet(trace.steps[index + 1], "id", "step-" \o ToString(index)))

\* C14: when the conversion fails on the malformed timestamp of the step at index
\* i, the error surfaced names step i.
C14_ErrorNamesStep ==
    (pc = "failed" /\ ~MalformedHeader /\ MalformedSteps # {}) =>
        \E i \in MalformedSteps :
            /\ \A j \in MalformedSteps : i <= j
            /\ NamesStep(error.message, i - 1)

----------------------------------------------------------------------------
(* What construction is specified to reject *)

RunStatuses == {"running", "completed", "failed", "cancelled", "unknown"}

\* C15: constructing a run with a status outside the enumeration running,
\* completed, failed, cancelled, unknown fails with a ValidationError.
C15_StatusEnumerationClosed ==
    (result.op = "EnhancedAgentRun" /\ result.status \notin RunStatuses)
        => Raised(result) /\ result.error = "ValidationError"

----------------------------------------------------------------------------
(* What the connector is specified to return: the steps *)

\* The ids the trace steps carry are pairwise distinct.
ExplicitIdsDistinct ==
    \A i, j \in DOMAIN TraceSteps(trace) :
        ("id" \in DOMAIN trace.steps[i] /\ "id" \in DOMAIN trace.steps[j]
            /\ trace.steps[i].id = trace.steps[j].id) => i = j

\* C16: in a returned run the step ids are pairwise distinct, also when some trace
\* steps carry an id and others are given step-<index>.
C16_StepIdsDistinct ==
    (Returned /\ ExplicitIdsDistinct) =>
        \A i, j \in DOMAIN run.steps : run.steps[i].id = run.steps[j].id => i = j

\* C17: the run has one step per trace step, in input order; the step at position
\* i has step_number i (0-based) and the id of the trace step, or step-<i> when the
\* trace step has none.
C17_StepsOneToOneInOrder ==
    /\ Returned => Len(run.steps) = Len(TraceSteps(trace))
    /\ \A k \in DOMAIN TraceSteps(trace) :
          Converted(k) =>
              LET step == run.steps[k]
                  i == k - 1
              IN  /\ step.step_number = i
                  /\ step.inputs.original_step = trace.steps[k]
                  /\ step.id = (IF "id" \in DOMAIN trace.steps[k] THEN trace.steps[k].id
                                ELSE "step-" \o ToString(i))
                  /\ k > 1 => run.steps[k - 1].step_number < step.step_number

\* A returned run of two steps, the first with its own id and the second without.
C17_Witness ==
    /\ Returned
    /\ Len(run.steps) = 2
    /\ trace.steps[1] # trace.steps[2]
    /\ "id" \in DOMAIN trace.steps[1]
    /\ "id" \notin DOMAIN trace.steps[2]
    /\ run.steps[1].id = "s1"
    /\ run.steps[2].id = "step-1"
    /\ run.steps[2].step_number = 1

----------------------------------------------------------------------------
(* What the connector is specified to return: the agent's capabilities *)

\* The trace step at position i is a tool step that names its tool.
NamesTool(i) ==
    /\ StepType(trace.steps[i]) = "tool"
    /\ "tool_name" \in DOMAIN trace.steps[i]

\* The positions at which a tool name is seen for the first time, ascending.
FirstSeen ==
    {i \in DOMAIN TraceSteps(trace) :
        /\ NamesTool(i)
        /\ \A j \in 1..(i - 1) :
              NamesTool(j) => trace.steps[j].tool_name # trace.steps[i].tool_name}

\* The k-th smallest element of a set of positions.
KthOf(S, k) == CHOOSE i \in S : Cardinality({j \in S : j < i}) = k - 1

\* C18: the agent's capabilities are one entry per distinct tool_name of the tool
\* steps, in first-seen order, named tool:<tool_name>, version 1.0.0, enabled; the
\* names are pairwise distinct and steps of other types add nothing.
C18_CapabilitiesFirstSeen ==
    run # None =>
        LET capabilities == run.agent.capabilities
        IN  /\ Len(capabilities) = Cardinality(FirstSeen)
            /\ \A k \in DOMAIN capabilities :
                  capabilities[k] =
                      [name |-> "tool:" \o trace.steps[KthOf(FirstSeen, k)].tool_name,
                       version |-> "1.0.0", enabled |-> TRUE]
            /\ \A k, l \in DOMAIN capabilities :
                  capabilities[k].name = capabilities[l].name => k = l

\* A returned run of two tool steps with different tools: search first, then calc.
C18_Witness ==
    /\ Returned
    /\ Len(run.steps) = 2
    /\ NamesTool(1) /\ trace.steps[1].tool_name = "search"
    /\ NamesTool(2) /\ trace.steps[2].tool_name = "calc"
    /\ Len(run.agent.capabilities) = 2
    /\ run.agent.capabilities[1].name = "tool:search"
    /\ run.agent.capabilities[2].name = "tool:calc"

----------------------------------------------------------------------------
(* What the connector is specified to return: the snapshots of a step *)

\* C19: the execution recorded for a tool step starts and ends at the start_time
\* of the step that owns it, also when the step has no timestamp and the current
\* time is taken instead.
C19_ExecutionAtStepTime ==
    \A i \in DOMAIN TraceSteps(trace) :
        (Converted(i) /\ StepType(trace.steps[i]) = "tool") =>
            LET execution == run.steps[i].action_state.completed_actions[1]
            IN  /\ execution.start_time = run.steps[i].start_time
                /\ execution.end_time = run.steps[i].start_time

\* The same for tool steps that carry a timestamp.
ExecutionAtGivenTimestamp ==
    \A i \in DOMAIN TraceSteps(trace) :
        (Converted(i) /\ StepType(trace.steps[i]) = "tool"
            /\ "timestamp" \in DOMAIN trace.steps[i]) =>
            LET execution == run.steps[i].action_state.completed_actions[1]
            IN  /\ execution.start_time = run.steps[i].start_time
                /\ execution.end_time = run.steps[i].start_time

\* C20: every converted step has a complete_state; a message step has a perception
\* and an interaction snapshot and no action snapshot, a tool step an action
\* snapshot and neither of the other two, a step of another type none of the three.
C20_SnapshotsByType ==
    \A i \in DOMAIN TraceSteps(trace) :
        Converted(i) =>
            LET step == run.steps[i]
                type == StepType(trace.steps[i])
            IN  /\ step.complete_state # None
                /\ (step.perception_state # None) <=> (type = "message")
                /\ (step.interaction_state # None) <=> (type = "message")
                /\ (step.action_state # None) <=> (type = "tool")

\* A returned run of a message step and a step that is neither message nor tool.
C20_Witness ==
    /\ Returned
    /\ Len(run.steps) = 2
    /\ StepType(trace.steps[1]) = "message"
    /\ StepType(trace.steps[2]) = "thought"
    /\ run.steps[1].perception_state # None
    /\ run.steps[1].action_state = None
    /\ run.steps[2].complete_state # None
    /\ run.steps[2].perception_state = None

----------------------------------------------------------------------------
(* What the metrics are specified to report: the step count *)

\* C21: calculate_metrics reports total_steps equal to the number of top-level
\* steps of the run, whatever the run's performance_metrics hold.
C21_TotalStepsIsTopLevelCount ==
    result.op = "calculate_metrics" => result.value.total_steps = Num(Len(run.steps))

\* The same for runs whose performance_metrics have no entry named total_steps.
TotalStepsWhenNotOverridden ==
    (result.op = "calculate_metrics" /\ Computes("total_steps"))
        => result.value.total_steps = Num(Len(run.steps))

----------------------------------------------------------------------------
(* What the connector's nested entities are expected to agree on *)

\* C24: the entities nested in a converted step carry the id of the step that owns
\* them, the trace step's id or the synthesized step-<index>: the Message and the
\* ActionExecution have the step's id, the Observation has <step id>-obs.
C24_EntitiesKeyedByStepId ==
    \A i \in DOMAIN TraceSteps(trace) :
        Converted(i) =>
            LET step == run.steps[i]
            IN  /\ step.interaction_state # None =>
                      step.interaction_state.recent_messages[1].id = step.id
                /\ step.perception_state # None =>
                      step.perception_state.current_observations[1].id = step.id \o "-obs"
                /\ step.action_state # None =>
                      step.action_state.completed_actions[1].id = step.id

\* The same for trace steps that carry an id.
EntitiesKeyedByExplicitId ==
    \A i \in DOMAIN TraceSteps(trace) :
        (Converted(i) /\ "id" \in DOMAIN trace.steps[i]) =>
            LET step == run.steps[i]
            IN  /\ step.interaction_state # None =>
                      step.interaction_state.recent_messages[1].id = step.id
                /\ step.perception_state # None =>
                      step.perception_state.current_observations[1].id = step.id \o "-obs"
                /\ step.action_state # None =>
                      step.action_state.completed_actions[1].id = step.id

\* C25: in a converted message step the Message is a response sent by the agent
\* exactly when the role in the Observation's metadata is assistant, also when the
\* trace step has no role.
C25_RoleAgreesWithDirection ==
    \A i \in DOMAIN TraceSteps(trace) :
        (Converted(i) /\ StepType(trace.steps[i]) = "message") =>
            LET observation == run.steps[i].perception_state.current_observations[1]
                message == run.steps[i].interaction_state.recent_messages[1]
            IN  (message.type = "response" /\ message.sender_id = run.agent.id)
                    <=> (observation.metadata.role = "assistant")

\* The same for trace steps that carry a role.
RoleAgreesWhenGiven ==
    \A i \in DOMAIN TraceSteps(trace) :
        (Converted(i) /\ StepType(trace.steps[i]) = "message"
            /\ "role" \in DOMAIN trace.steps[i]) =>
            LET observation == run.steps[i].perception_state.current_observations[1]
                message == run.steps[i].interaction_state.recent_messages[1]
            IN  (message.type = "response" /\ message.sender_id = run.agent.id)
                    <=> (observation.metadata.role = "assistant")

----------------------------------------------------------------------------
(* What the timeline is expected to keep: a step starts before it ends *)

\* C30: in the sequence get_timeline returns, the step_start event of a step comes
\* before the step_end event of the same step.
C30_StartBeforeEnd ==
    (result.op = "get_timeline" /\ ~Raised(result)) =>
        \A i, j \in DOMAIN result.value :
            (/\ result.value[i].type = "step_start"
             /\ result.value[j].type = "step_end"
             /\ result.value[i].step_id = result.value[j].step_id) => i < j

\* The same for runs in which no step ends before it starts.
StartBeforeEndWhenOrdered ==
    (result.op = "get_timeline" /\ ~Raised(result)
        /\ \A k \in DOMAIN PreorderDepth(run.steps, 0) :
              LET step == PreorderDepth(run.steps, 0)[k].step
              IN  step.end_time # None => step.start_time.t <= step.end_time.t) =>
        \A i, j \in DOMAIN result.value :
            (/\ result.value[i].type = "step_start"
             /\ result.value[j].type = "step_end"
             /\ result.value[i].step_id = result.value[j].step_id) => i < j

----------------------------------------------------------------------------
(* Basic connector: connectors/openai_traces.py over ontology/run.py, and the *)
(* JSON round trip of tests/test_openai_connector.py                          *)

MaxBasicSteps == 2

\* The models of ontology/run.py. role and content of a message and the id of a
\* run are required strings: a null is a validation error.

\* Variant that builds the message without validating it (AgentMessage.construct).
AgentMessage_construct(id, role, content, timestamp) ==
    Return([id |-> id, role |-> role, content |-> content, timestamp |-> timestamp])

\* AgentMessage(id=..., role=..., content=..., timestamp=...): role and content
\* are declared str, so None is rejected.
AgentMessage(id, role, content, timestamp) ==
    IF role = NoneStr \/ content = NoneStr
    THEN Raise("ValidationError", "AgentMessage: none is not an allowed value")
    ELSE Return([id |-> id, role |-> role, content |-> content,
                 timestamp |-> timestamp])

ToolCall(id, name, input, output, start_time) ==
    [id |-> id, name |-> name, input |-> input, output |-> output,
     status |-> NoneStr, start_time |-> start_time, end_time |-> None]

AgentStep(id, name, start_time) ==
    [id |-> id, name |-> name, status |-> NoneStr, start_time |-> start_time,
     end_time |-> None, messages |-> <<>>, tool_calls |-> <<>>,
     sub_steps |-> <<>>, error |-> None]

AgentRun(id, start_time, end_time) ==
    IF id = NoneStr
    THEN Raise("ValidationError", "AgentRun.id: none is not an allowed value")
    ELSE Return([id |-> id, status |-> NoneStr, start_time |-> start_time,
                 end_time |-> end_time, steps |-> <<>>, metadata |-> <<>>])

\* _parse_time of this connector reads as the one of the enhanced connector.
_parse_step(step) ==
    LET id == DictGet(step, "id", NoneStr)
        type == DictGet(step, "type", NoneStr)
        start_time == _parse_time(DictGet(step, "timestamp", NoneStr))
    IN  IF Raised(start_time) THEN start_time
        ELSE IF type = "message"
        THEN LET message == AgentMessage(id, DictGet(step, "role", "assistant"),
                                         DictGet(step, "content", ""),
                                         start_time.value)
             IN  IF Raised(message) THEN message
                 ELSE Return([AgentStep(id, type, start_time.value) EXCEPT
                                 !.messages = Append(@, message.value)])
        ELSE IF type = "tool"
        THEN Return([AgentStep(id, type, start_time.value) EXCEPT
                        !.tool_calls = Append(@, ToolCall(
                            id, DictGet(step, "tool_name", NoneStr),
                            DictGet(step, "input", None),
                            DictGet(step, "output", None), start_time.value))])
        ELSE Return(AgentStep(id, type, start_time.value))

BasicInputSteps ==
    { [type |-> "message", id |-> "s1", role |-> "user", content |-> "hi",
       timestamp |-> "2024-01-01T00:00:01"],
      [type |-> "message"],
      [type |-> "message", id |-> "s2", content |-> NoneStr],
      [type |-> "tool", id |-> "s3", tool_name |-> "search", input |-> [q |-> "x"],
       timestamp |-> "2024-01-01T00:00:02Z"],
      [type |-> "note", timestamp |-> "soon"],
      [id |-> "s4"] }

BasicTraces ==
    { [steps |-> steps] @@ h :
        h \in { <<>>, [id |-> "r1", started_at |-> "2024-01-01T00:00:00Z"],
                [id |-> "r1", ended_at |-> NoneStr],
                [id |-> NoneStr], [id |-> "r2", started_at |-> "today"] },
        steps \in UNION {[1..n -> BasicInputSteps] : n \in 0..MaxBasicSteps} }

InitBasic ==
    /\ trace \in BasicTraces
    /\ run = None
    /\ result = NoResult
    /\ pc = "trace_json"
    /\ error = None
    /\ clock = 0

\* run = AgentRun(id=..., start_time=..., end_time=...)
BasicCreateRun ==
    /\ pc = "trace_json"
    /\ LET start_time == _parse_time(DictGet(trace, "started_at", NoneStr))
           end_time == _parse_time(DictGet(trace, "ended_at", NoneStr))
           created == IF Raised(start_time) THEN start_time
                      ELSE IF Raised(end_time) THEN end_time
                      ELSE AgentRun(DictGet(trace, "id", ""), start_time.value,
                                    end_time.value)
       IN  IF Raised(created) THEN Fail(created)
           ELSE /\ run' = created.value
                /\ pc' = "basic_steps"
                /\ error' = None
    /\ UNCHANGED <<result, trace, clock>>

\* run.steps.append(_parse_step(step))
BasicParseStep ==
    /\ pc = "basic_steps"
    /\ Len(run.steps) < Len(TraceSteps(trace))
    /\ LET agent_step == _parse_step(TraceSteps(trace)[Len(run.steps) + 1])
       IN  IF Raised(agent_step) THEN Fail(agent_step)
           ELSE /\ run' = [run EXCEPT !.steps = Append(@, agent_step.value)]
                /\ UNCHANGED <<pc, error>>
    /\ UNCHANGED <<result, trace, clock>>

\* return run
BasicReturn ==
    /\ pc = "basic_steps"
    /\ Len(run.steps) = Len(TraceSteps(trace))
    /\ pc' = "accepted"
    /\ UNCHANGED <<run, result, trace, error, clock>>

\* run.json() and AgentRun.parse_raw(dumped)
json(r) == Dump(Model("AgentRun"), r)
parse_raw(document) == Validate(Model("AgentRun"), document)

\* dumped = run.json(); run2 = AgentRun.parse_raw(dumped)
BasicRoundTrip ==
    /\ pc = "accepted"
    /\ result' = [op |-> "round_trip", document |-> json(run),
                  outcome |-> parse_raw(json(run))]
    /\ UNCHANGED <<run, trace, pc, error, clock>>

\* AgentRun.parse_raw(document) for a document that differs from the one
\* written: without the required id, with an end_time that is no timestamp,
\* or without the keys steps and metadata.
BasicReadDocument ==
    /\ pc = "accepted"
    /\ LET doc == json(run)
       IN  \E document \in {[k \in DOMAIN doc \ {"id"} |-> doc[k]],
                            [doc EXCEPT !.end_time = "today"],
                            [k \in DOMAIN doc \ {"steps", "metadata"} |-> doc[k]]} :
              result' = [op |-> "parse_raw", document |-> document,
                         outcome |-> parse_raw(document)]
    /\ UNCHANGED <<run, trace, pc, error, clock>>

NextBasic ==
    \/ BasicCreateRun
    \/ BasicParseStep
    \/ BasicReturn
    \/ BasicRoundTrip
    \/ BasicReadDocument

SpecBasic == InitBasic /\ [][NextBasic]_vars

----------------------------------------------------------------------------
(* Generic ontology: agentlogontology/model.py and agentlogontology/parser.py *)

\* Python dicts and dataclass instances are shared by reference. The run's
\* memory holds them in two heaps: dicts (state, params and result maps) and
\* objs (OntologyObject instances). A reference is a position in its heap;
\* NullRef is Python None in a slot that holds a dict reference.
MaxTraceEvents == 2
MaxLaterCalls == 1

NullRef == 0

OntologyObject(object_id, kind, state) ==
    [object_id |-> object_id, kind |-> kind, state |-> state, metadata |-> <<>>]

OntologyAction(action_id, kind, target, params, res) ==
    [action_id |-> action_id, kind |-> kind, target |-> target,
     params |-> params, result |-> res]

OntologyEvent(action, timestamp, metadata) ==
    [action |-> action, timestamp |-> timestamp, metadata |-> metadata]

\* AgentRun.add_object: self.objects[obj.object_id] = obj
add_object(r, obj) ==
    [r EXCEPT !.objects = (r.objs[obj].object_id :> obj) @@ @]

\* An apply_event that registers an object for a target the run does not know
\* (objects.setdefault) before merging.
apply_event_upsert(r, event) ==
    LET target == event.action.target
        res == event.action.result
        known == target \in DOMAIN r.objects
        r1 == IF target \in {NoneStr, ""} \/ known THEN r
              ELSE [r EXCEPT !.dicts = Append(@, <<>>),
                             !.objs = Append(@, OntologyObject(target, "Event",
                                                               Len(r.dicts) + 1)),
                             !.objects = (target :> (Len(r.objs) + 1)) @@ @]
        logged == [r1 EXCEPT !.events = Append(@, event)]
    IN  IF target \notin {NoneStr, ""} /\ res # NullRef /\ r.dicts[res] # <<>>
        THEN [logged EXCEPT !.dicts[r1.objs[r1.objects[target]].state] =
                                DictUpdate(@, r.dicts[res])]
        ELSE logged

\* AgentRun.apply_event
apply_event(r, event) ==
    LET logged == [r EXCEPT !.events = Append(@, event)]
        target == event.action.target
        res == event.action.result
    IN  IF target \notin {NoneStr, ""} /\ target \in DOMAIN r.objects
        THEN IF res # NullRef /\ r.dicts[res] # <<>>
             THEN [logged EXCEPT !.dicts[r.objs[r.objects[target]].state] =
                                     DictUpdate(@, r.dicts[res])]
             ELSE logged
        ELSE logged

_parse_timestamp(ts) ==
    IF ts \in {NoneStr, ""} THEN None
    ELSE IF Raised(fromisoformat(ts)) THEN None ELSE fromisoformat(ts).value

_map_event_type(event_type) ==
    CASE event_type = "user_message" -> "Observe"
      [] event_type = "assistant_response" -> "Execute"
      [] event_type = "tool_call" -> "Execute"
      [] event_type = "tool_result" -> "Observe"
      [] OTHER -> "Execute"

_map_object_kind(event_type) ==
    CASE event_type = "user_message" -> "Observation"
      [] event_type = "assistant_response" -> "Thought"
      [] event_type = "tool_call" -> "ExternalAction"
      [] event_type = "tool_result" -> "ActionResult"
      [] OTHER -> "Event"

\* obj_id = e.get("id", f"obj-{idx}")
EventObjectId(e, idx) == DictGet(e, "id", "obj-" \o ToString(idx))

\* The three e.get("payload", {}) reads of one loop iteration: the same dict of
\* the input each time when the event has a payload, a fresh {} each time when
\* it has none. The result is the heap after the reads and the three references
\* (state, params, result).
PayloadReads(dicts, e) ==
    LET n == Len(dicts)
    IN  IF "payload" \in DOMAIN e
        THEN [dicts |-> Append(dicts, e.payload),
              state |-> n + 1, params |-> n + 1, result |-> n + 1]
        ELSE [dicts |-> dicts \o << <<>>, <<>>, <<>> >>,
              state |-> n + 1, params |-> n + 2, result |-> n + 3]

\* An action that always targets the positional id f"obj-{idx}", whatever id the
\* event carries.
ParserActionPositionalTarget(e, idx, reads) ==
    OntologyAction("act-" \o ToString(idx),
                   _map_event_type(DictGet(e, "type", "unknown")),
                   "obj-" \o ToString(idx), reads.params, reads.result)

\* action = Action(action_id=f"act-{idx}", kind=..., target=obj_id, ...)
ParserAction(e, idx, reads) ==
    OntologyAction("act-" \o ToString(idx),
                   _map_event_type(DictGet(e, "type", "unknown")),
                   EventObjectId(e, idx), reads.params, reads.result)

ParserEvent(e, idx, reads) ==
    OntologyEvent(ParserAction(e, idx, reads),
                  _parse_timestamp(DictGet(e, "timestamp", NoneStr)),
                  DictGet(e, "metadata", <<>>))

\* The run of the loop body up to and including run.add_object(obj).
WithEventObject(r, e, idx) ==
    LET reads == PayloadReads(r.dicts, e)
        obj == Len(r.objs) + 1
    IN  add_object([r EXCEPT
                       !.dicts = reads.dicts,
                       !.objs = Append(@, OntologyObject(
                                    EventObjectId(e, idx),
                                    _map_object_kind(DictGet(e, "type", "unknown")),
                                    reads.state))],
                   obj)

\* Input events of a trace.
GenericEvents ==
    { [type |-> "user_message", id |-> "e1", payload |-> [text |-> "hi"],
       timestamp |-> "2024-01-01T00:00:00"],
      [type |-> "assistant_response", id |-> "e1", payload |-> [text |-> "yo"]],
      [type |-> "tool_call", payload |-> [tool |-> "search"],
       timestamp |-> "2024-01-01T00:00:05Z"],
      [type |-> "tool_result", id |-> "agent", payload |-> [text |-> "ok"]],
      [type |-> "user_message", id |-> "", payload |-> [text |-> "hi"]],
      [id |-> "e2"] }

RECURSIVE GenericEventLists(_)
GenericEventLists(n) ==
    IF n = 0 THEN { <<>> }
    ELSE GenericEventLists(n - 1)
         \cup { Append(es, e) : es \in GenericEventLists(n - 1), e \in GenericEvents }

GenericTraces ==
    { [events |-> es] : es \in GenericEventLists(MaxTraceEvents) }
    \cup { [trace_id |-> "t1", agent_name |-> "e1", events |-> es] :
             es \in GenericEventLists(MaxTraceEvents) }

InitGeneric ==
    /\ trace \in GenericTraces
    /\ run = None
    /\ result = NoResult
    /\ pc = "data"
    /\ error = None
    /\ clock = 0

\* from_openai_trace, up to the loop: the run with its agent registered.
ParserStart ==
    /\ pc = "data"
    /\ run' = add_object(
                [run_id |-> DictGet(trace, "trace_id", "unknown"),
                 agent |-> 1,
                 objects |-> <<>>,
                 events |-> <<>>,
                 metadata |-> <<>>,
                 objs |-> << OntologyObject(DictGet(trace, "agent_name", "agent"),
                                            "Agent", 1) >>,
                 dicts |-> << <<>> >>],
                1)
    /\ pc' = "events"
    /\ UNCHANGED <<result, trace, error, clock>>

\* One iteration of the loop over data["events"].
ParserLoop ==
    /\ pc = "events"
    /\ Len(run.events) < Len(trace.events)
    /\ LET idx == Len(run.events)
           e == trace.events[idx + 1]
           before == WithEventObject(run, e, idx)
           event == ParserEvent(e, idx, PayloadReads(run.dicts, e))
       IN  /\ run' = apply_event(before, event)
           /\ result' = [op |-> "apply_event", before |-> before, event |-> event]
    /\ UNCHANGED <<trace, pc, error, clock>>

\* return AgentLog(runs=[run])
ParserReturn ==
    /\ pc = "events"
    /\ Len(run.events) = Len(trace.events)
    /\ pc' = "parsed"
    /\ result' = [op |-> "from_openai_trace"]
    /\ UNCHANGED <<run, trace, error, clock>>

\* A caller of the returned log records one more input event the way the
\* parser does: add_object, then apply_event on the object just added.
RecordEvent ==
    /\ pc \in {"parsed", "free"}
    /\ clock < MaxLaterCalls
    /\ \E e \in GenericEvents :
         LET idx == Len(run.events)
             before == WithEventObject(run, e, idx)
             event == ParserEvent(e, idx, PayloadReads(run.dicts, e))
         IN  /\ run' = apply_event(before, event)
             /\ result' = [op |-> "apply_event", before |-> before, event |-> event,
                           input |-> e]
    /\ clock' = clock + 1
    /\ UNCHANGED <<trace, pc, error>>

LaterTargets == {NoneStr, "", "ghost", "e1", "obj-0", "agent"}
LaterResults == {None, [text |-> "bye"], [status |-> "done"]}

\* The caller's input document as it reads once the run is r. The payload of an
\* input event is not copied: it is the dict that the i-th logged action holds
\* as params (and the state of the object made from the event), so a merge into
\* that state shows in the document.
DocumentAfter(data, r) ==
    [data EXCEPT !.events =
        [i \in DOMAIN @ |->
            IF i <= Len(r.events) /\ "payload" \in DOMAIN @[i]
            THEN [@[i] EXCEPT !.payload = r.dicts[r.events[i].action.params]]
            ELSE @[i]]]

\* A caller of the returned log applies an event of its own, with a params map
\* and a result (None, {} or a map) that nothing else refers to. The merge
\* reaches the input document when the target's state is a payload of it.
ApplyEvent ==
    /\ pc \in {"parsed", "free"}
    /\ clock < MaxLaterCalls
    /\ \E target \in LaterTargets, res \in LaterResults, null \in BOOLEAN :
         /\ null => res = None
         /\ LET n == Len(run.dicts)
                before == [run EXCEPT !.dicts =
                              IF null THEN Append(@, <<>>) ELSE @ \o << <<>>, res >>]
                event == OntologyEvent(
                             OntologyAction("later", "Execute", target, n + 1,
                                            IF null THEN NullRef ELSE n + 2),
                             None, <<>>)
            IN  /\ run' = apply_event(before, event)
                /\ trace' = DocumentAfter(trace, apply_event(before, event))
                /\ result' = [op |-> "apply_event", before |-> before, event |-> event]
    /\ clock' = clock + 1
    /\ pc' = "free"
    /\ UNCHANGED error

\* A caller of the returned log registers an object of its own.
AddObject ==
    /\ pc \in {"parsed", "free"}
    /\ clock < MaxLaterCalls
    /\ \E object_id \in {"", "e1"} :
         LET obj == Len(run.objs) + 1
         IN  run' = add_object(
                        [run EXCEPT !.dicts = Append(@, <<>>),
                                    !.objs = Append(@, OntologyObject(
                                                 object_id, "Event", Len(run.dicts) + 1))],
                        obj)
    /\ result' = [op |-> "add_object", before |-> run]
    /\ clock' = clock + 1
    /\ pc' = "free"
    /\ UNCHANGED <<trace, error>>

NextGeneric ==
    \/ ParserStart
    \/ ParserLoop
    \/ ParserReturn
    \/ RecordEvent
    \/ ApplyEvent
    \/ AddObject

SpecGeneric == InitGeneric /\ [][NextGeneric]_vars

----------------------------------------------------------------------------
(* Claims about the generic ontology *)

\* The state map of the object stored under an id.
StateOf(r, object_id) == r.dicts[r.objs[r.objects[object_id]].state]

\* The last operation was an apply_event call; result.before is the run at the
\* moment of the call and result.event the event passed.
Applied == result.op = "apply_event"

HasResult(r, event) ==
    event.action.result # NullRef /\ r.dicts[event.action.result] # <<>>

\* C23: apply_event appends the event to the end of the event log and, when the
\* action's target is an object of the run and the action has a non-empty
\* result, the target's state afterwards is its state before updated with the
\* result map.
C23_AppendsAndMerges ==
    Applied =>
        /\ run.events = Append(result.before.events, result.event)
        /\ (/\ result.event.action.target \in DOMAIN result.before.objects
            /\ HasResult(result.before, result.event))
           => StateOf(run, result.event.action.target)
                = DictUpdate(StateOf(result.before, result.event.action.target),
                             result.before.dicts[result.event.action.result])

\* The same for targets other than the empty string.
AppendsAndMergesNamedTarget ==
    (Applied /\ result.event.action.target # "") =>
        /\ run.events = Append(result.before.events, result.event)
        /\ (/\ result.event.action.target \in DOMAIN result.before.objects
            /\ HasResult(result.before, result.event))
           => StateOf(run, result.event.action.target)
                = DictUpdate(StateOf(result.before, result.event.action.target),
                             result.before.dicts[result.event.action.result])

\* The call names no object to update: no target, a target that is no object
\* of the run, or an empty or null result.
NothingToMerge ==
    \/ result.event.action.target = NoneStr
    \/ result.event.action.target \notin DOMAIN result.before.objects
    \/ ~HasResult(result.before, result.event)

\* C26: apply_event leaves the state of every object other than the action's
\* target as it was; when the target is absent or names no object of the run,
\* or the result is empty or null, every object's state is as it was and the
\* objects of the run are the same; in every case the log is one event longer.
C26_ApplyEventFrame ==
    Applied =>
        /\ \A id \in DOMAIN result.before.objects :
             id # result.event.action.target
               => /\ id \in DOMAIN run.objects
                  /\ StateOf(run, id) = StateOf(result.before, id)
        /\ NothingToMerge
             => /\ run.objects = result.before.objects
                /\ run.objs = result.before.objs
                /\ \A id \in DOMAIN run.objects :
                     StateOf(run, id) = StateOf(result.before, id)
        /\ Len(run.events) = Len(result.before.events) + 1

\* An event merged into its target while another object of the run holds a
\* non-empty state, and (in other behaviours) events with nothing to merge.
C26_Witness ==
    /\ Applied
    /\ ~NothingToMerge
    /\ StateOf(run, result.event.action.target)
         # StateOf(result.before, result.event.action.target)
    /\ \E id \in DOMAIN run.objects :
         id # result.event.action.target /\ StateOf(run, id) # <<>>

\* A logged event as a reader of the log sees it: the action with its params
\* and result maps read through their references.
LoggedEvent(r, i) ==
    [action_id |-> r.events[i].action.action_id,
     target |-> r.events[i].action.target,
     params |-> r.dicts[r.events[i].action.params],
     result |-> IF r.events[i].action.result = NullRef THEN None
                ELSE r.dicts[r.events[i].action.result]]

\* C27: the event log is append-only: after an apply_event call every event
\* logged before the call is at the position it had and shows the params and
\* result it showed before the call.
C27_AppendOnlyHistory ==
    Applied =>
        /\ Len(run.events) >= Len(result.before.events)
        /\ \A i \in DOMAIN result.before.events :
             LoggedEvent(run, i) = LoggedEvent(result.before, i)

\* The same within from_openai_trace alone: the events logged so far keep their
\* params and result while the parser goes through the input.
AppendOnlyWhileParsing ==
    (Applied /\ pc = "events") =>
        /\ Len(run.events) >= Len(result.before.events)
        /\ \A i \in DOMAIN result.before.events :
             LoggedEvent(run, i) = LoggedEvent(result.before, i)

\* from_openai_trace has returned and nothing has been called on the log since.
ParserReturned == result.op = "from_openai_trace"

\* C29: in the AgentLog returned by from_openai_trace the object stored under
\* the agent's object_id is the run's agent itself, an object of kind Agent.
C29_AgentStaysRegistered ==
    ParserReturned =>
        /\ run.objs[run.agent].object_id \in DOMAIN run.objects
        /\ run.objects[run.objs[run.agent].object_id] = run.agent
        /\ run.objs[run.objects[run.objs[run.agent].object_id]].kind = "Agent"

\* The same for traces in which no event's object id is the agent's name.
AgentRegisteredWhenIdsDiffer ==
    (/\ ParserReturned
     /\ \A i \in DOMAIN trace.events :
          EventObjectId(trace.events[i], i - 1) # DictGet(trace, "agent_name", "agent"))
    => /\ run.objs[run.agent].object_id \in DOMAIN run.objects
       /\ run.objects[run.objs[run.agent].object_id] = run.agent
       /\ run.objs[run.objects[run.objs[run.agent].object_id]].kind = "Agent"

\* The run was built by from_openai_trace and by later calls made the way the
\* parser makes them (RecordEvent) only.
ParserStyleOnly == pc = "parsed"

\* The i-th logged event is the one made from input event e at index i - 1.
LoggedFor(i, e) ==
    /\ run.events[i].action.action_id = "act-" \o ToString(i - 1)
    /\ run.events[i].action.target = EventObjectId(e, i - 1)
    /\ run.events[i].action.kind = _map_event_type(DictGet(e, "type", "unknown"))

\* C28: every object of the run is stored under its own object_id; after
\* from_openai_trace and later parser-style calls the log holds one event per
\* input event in input order (the events of the trace first, each later input
\* appended at the end), and every logged event's target is the id of an object
\* of the run.
C28_ObjectsAndLogConsistent ==
    /\ pc # "data"
         => \A id \in DOMAIN run.objects : run.objs[run.objects[id]].object_id = id
    /\ ParserStyleOnly
         => /\ Len(run.events) = Len(trace.events) + clock
            /\ \A i \in DOMAIN trace.events : LoggedFor(i, trace.events[i])
            /\ "input" \in DOMAIN result
                 => /\ run.events = Append(result.before.events, result.event)
                    /\ LoggedFor(Len(run.events), result.input)
            /\ \A i \in DOMAIN run.events :
                 run.events[i].action.target \in DOMAIN run.objects

\* A trace of two events that share an id was parsed and one more input event
\* was recorded on the returned log.
C28_Witness ==
    /\ ParserStyleOnly
    /\ "input" \in DOMAIN result
    /\ \E i, j \in DOMAIN trace.events :
         i < j /\ run.events[i].action.target = run.events[j].action.target

\* C22: for a trace the basic connector accepts, the run read back from the
\* JSON of the run has the same id, as many steps, and in each step, position
\* by position, as many messages, each with the same id and the same content.
C22_BasicRoundTrip ==
    result.op = "round_trip" =>
        /\ ~Raised(result.outcome)
        /\ result.outcome.value.id = run.id
        /\ Len(result.outcome.value.steps) = Len(run.steps)
        /\ \A i \in DOMAIN run.steps :
             /\ Len(result.outcome.value.steps[i].messages) = Len(run.steps[i].messages)
             /\ \A j \in DOMAIN run.steps[i].messages :
                  /\ result.outcome.value.steps[i].messages[j].id
                       = run.steps[i].messages[j].id
                  /\ result.outcome.value.steps[i].messages[j].content
                       = run.steps[i].messages[j].content

\* The run of a trace with a message step that has a content and one that has
\* none (content ""), dumped and read back.
C22_Witness ==
    /\ result.op = "round_trip"
    /\ ~Raised(result.outcome)
    /\ \E i, k \in DOMAIN run.steps :
         /\ run.steps[i].messages # <<>> /\ run.steps[i].messages[1].content = "hi"
         /\ run.steps[k].messages # <<>> /\ run.steps[k].messages[1].content = ""

\* The whole run is read back as it was, timestamps with and without offset and
\* tool calls included.
BasicRoundTripEqual ==
    result.op = "round_trip"
        => ~Raised(result.outcome) /\ result.outcome.value = run

\* An edited document is rejected exactly when its id is missing or its end_time
\* is no timestamp, and missing steps are read as the declared default.
BasicReadDocumentValidates ==
    result.op = "parse_raw"
        => /\ Raised(result.outcome)
                <=> (\/ "id" \notin DOMAIN result.document
                     \/ result.document.end_time = "today")
           /\ ("steps" \notin DOMAIN result.document)
                => (result.outcome.value.steps = <<>> /\ result.outcome.value.id = run.id)

====
